---------------------------- MODULE Spec2Model ----------------------------
(***************************************************************************)
(* A model of web-transport-iroh: the WebTransport session layered over a  *)
(* QUIC connection (src/src/session.rs, connect.rs, settings.rs, error.rs, *)
(* recv.rs, server.rs).                                                    *)
(*                                                                         *)
(* The module holds several specifications over one set of variables, one  *)
(* per part of the program:                                                *)
(*   SpecAcceptUni, SpecAcceptBi                                           *)
(*               the accept demultiplexer (H3SessionAccept) and the raw    *)
(*               accept path, fed by a peer that opens streams of one      *)
(*               direction and sends their bytes one at a time;            *)
(*   LiveAcceptUni                                                         *)
(*               SpecAcceptUni with the fairness of an application that    *)
(*               keeps calling accept_uni;                                 *)
(*   SpecAccept  the accept side with streams of both directions;          *)
(*   SpecCalls, LiveCalls                                                  *)
(*               the accept side of an H3 session whose application may    *)
(*               drop a waiting accept call, and the same with calls that  *)
(*               are polled again and again;                               *)
(*   SpecShared, LiveShared                                                *)
(*               two tasks that call accept_uni side by side on one H3     *)
(*               session, and the same with the task polled again whose    *)
(*               waker the demultiplexer holds;                            *)
(*   SpecOpen    open_uni / open_bi and write_full_with_max_prio;          *)
(*   SpecDgram   send_datagram / read_datagram / max_datagram_size;        *)
(*   SpecConn    the two ends of one connection: the SETTINGS and the      *)
(*               CONNECT exchange, session construction and close;         *)
(*   LiveConn    SpecConn with a network that delivers the close frames;   *)
(*   LiveHandshake                                                         *)
(*               SpecConn with handshake calls that are driven on;         *)
(*   SpecDrain, LiveDrain                                                  *)
(*               an established session whose drain task reads the         *)
(*               capsules a peer writes on the CONNECT stream;             *)
(*   SpecRaw     a raw session with all of its operations side by side;    *)
(*   SpecCodes   the error codes of stop, reset and stopped streams and    *)
(*               the conversion of stream errors;                          *)
(*   SpecServer, LiveServer                                                *)
(*               Server::accept and the handshakes of the connections      *)
(*               that arrive at its endpoint.                              *)
(* Every specification leaves the variables of the other parts unchanged.  *)
(***************************************************************************)
EXTENDS Integers, Sequences, FiniteSets, TLC

(***************************************************************************)
(* Bounds of the model.                                                    *)
(***************************************************************************)
\* Incoming streams the peer opens in one run of the accept demultiplexer.
MaxIn == 2

(***************************************************************************)
(* Wire constants of web_transport_proto used by session.rs.               *)
(***************************************************************************)
\* StreamUni::WEBTRANSPORT (0x54)
WEBTRANSPORT == 84
\* Frame::WEBTRANSPORT (0x41)
FRAME_WEBTRANSPORT == 65
\* StreamUni::QPACK_ENCODER (0x02)
QPACK_ENCODER == 2
\* StreamUni::QPACK_DECODER (0x03)
QPACK_DECODER == 3

(***************************************************************************)
(* VarInt: the QUIC variable-length integer.  The two top bits of the      *)
(* first byte give the length (1, 2, 4 or 8 bytes), the rest is the value, *)
(* big-endian.  Values of the model stay below 2^31.                       *)
(***************************************************************************)
Pow2(n) == CASE n = 0 -> 1 [] n = 1 -> 2 [] n = 2 -> 4 [] OTHER -> 8

\* VarInt::encode: the shortest of the four forms.
VarIntEncode(v) ==
    IF v < 64 THEN << v >>
    ELSE IF v < 16384 THEN << 64 + (v \div 256), v % 256 >>
    ELSE IF v < 1073741824
      THEN << 128 + (v \div 16777216), (v \div 65536) % 256,
              (v \div 256) % 256, v % 256 >>
      ELSE << 192, 0, 0, 0, (v \div 16777216) % 256, (v \div 65536) % 256,
              (v \div 256) % 256, v % 256 >>

\* The number of bytes the VarInt starting with byte b occupies.
VarIntSize(b) == Pow2(b \div 64)

RECURSIVE BigEndian(_, _)
BigEndian(bytes, acc) ==
    IF bytes = << >> THEN acc
    ELSE BigEndian(Tail(bytes), acc * 256 + Head(bytes))

\* VarInt::decode on a buffer: ok = FALSE is UnexpectedEnd; size is the
\* number of bytes consumed (the cursor position afterwards).
VarIntDecode(buf) ==
    IF Len(buf) = 0 THEN [ok |-> FALSE, value |-> 0, size |-> 0]
    ELSE LET n == VarIntSize(buf[1]) IN
         IF Len(buf) < n THEN [ok |-> FALSE, value |-> 0, size |-> 0]
         ELSE [ok |-> TRUE,
               value |-> BigEndian(SubSeq(buf, 2, n), buf[1] % 64),
               size |-> n]

(***************************************************************************)
(* Option<T> is a sequence of length at most one.                          *)
(***************************************************************************)
None == << >>
Some(x) == << x >>
IsSome(o) == o # << >>
Unwrap(o) == o[1]

\* F applied to the value of e: a LET whose value is computed once.
With(e, F(_)) == CHOOSE v \in { F(x) : x \in {e} } : TRUE

VARIABLES
    sess,           \* the Session under test: [h3 |-> Option<H3SessionState>]
    connClosed,     \* whether the session's QUIC connection has been closed
    incoming,       \* the streams the peer has opened towards us, in stream-id order
    qpack_encoder,  \* H3SessionAccept.qpack_encoder: Option<stream>
    qpack_decoder,  \* H3SessionAccept.qpack_decoder: Option<stream>
    uniRet,         \* what the latest poll of accept_uni returned
    biRet,          \* what the latest poll of accept_bi returned
    surfaced,       \* the streams returned to accept callers, in the order returned
    uniCalls,       \* accept_uni calls made side by side, and whose waker is registered
    calls,          \* the calls of open_uni / open_bi and the stream each one opened
    dgQueue,        \* datagrams QUIC has received and read_datagram has not taken
    dgRead,         \* what the latest read_datagram returned, and from which payload
    dgSent,         \* what the latest send_datagram submitted to QUIC
    mtu,            \* Connection::max_datagram_size(): Option<usize>
    mdsRet,         \* what the latest max_datagram_size returned
    biStreams,      \* the client-initiated bidirectional streams of a connection
    closeFrames,    \* CONNECTION_CLOSE frames in flight
    ends,           \* the client and the server end of a connection
    xfer,           \* an error code on its way from one end of a stream to the other
    srv             \* a Server: the connections towards it and its accept call

acceptVars == << incoming, qpack_encoder, qpack_decoder, uniRet, biRet, surfaced, uniCalls >>
openVars == << calls >>
dgramVars == << dgQueue, dgRead, dgSent, mtu, mdsRet >>
connVars == << biStreams, closeFrames, ends >>
codeVars == << xfer, srv >>

(***************************************************************************)
(* H3SessionState::connect: the session id and the cached headers.         *)
(***************************************************************************)
header_uni_of(session_id) == VarIntEncode(WEBTRANSPORT) \o VarIntEncode(session_id)
\* A bidirectional header built with the unidirectional stream type.
header_bi_as_uni(session_id) == VarIntEncode(WEBTRANSPORT) \o VarIntEncode(session_id)
header_bi_of(session_id) == VarIntEncode(FRAME_WEBTRANSPORT) \o VarIntEncode(session_id)
header_datagram_of(session_id) == VarIntEncode(session_id)

\* The URL of the CONNECT request the session was established with.
ConnectUrl == "https://server/foo"

H3SessionState_connect(connect_session_id) ==
    [url |-> ConnectUrl,
     session_id |-> connect_session_id,
     header_uni |-> header_uni_of(connect_session_id),
     header_bi |-> header_bi_of(connect_session_id),
     header_datagram |-> header_datagram_of(connect_session_id)]

\* Session::raw and Session::new_h3.
Session_new_h3(connect_session_id) == [h3 |-> Some(H3SessionState_connect(connect_session_id))]
\* A raw session that is given the state of an H3 session.
Session_raw_framed == Session_new_h3(0)
Session_raw == [h3 |-> None]

\* Session::url
Session_url(s) == IF IsSome(s.h3) THEN Some(Unwrap(s.h3).url) ELSE None

\* Stream ids a CONNECT stream can have in the single-session specifications:
\* client-initiated bidirectional streams (multiples of 4), one with a
\* one-byte and one with a two-byte VarInt.
SessionIds == {0, 64}

(***************************************************************************)
(* The accept demultiplexer.                                               *)
(*                                                                         *)
(* An incoming stream is [dir, bytes, status, loc]: bytes is what has      *)
(* arrived on it, status whether the peer has finished ("fin") or reset    *)
(* ("reset") it, loc where the stream is: in QUIC's accept queue           *)
(* ("queued"), in pending_uni or pending_bi ("pending"), returned to a     *)
(* caller ("surfaced"), held in qpack_encoder/qpack_decoder ("qpack"), or  *)
(* dropped ("dropped": nothing reads or changes the stream any more; the   *)
(* record keeps what had arrived on it when it was dropped).               *)
(***************************************************************************)
Pending == [tag |-> "Pending", stream |-> 0]
Idle == [tag |-> "Idle", stream |-> 0]
RetOk(i) == [tag |-> "Ok", stream |-> i]
RetErr(e) == [tag |-> e, stream |-> 0]

\* VarInt::read at offset off of stream s: reads the first byte, then the
\* rest; a reset stream or one that ends before the VarInt is complete
\* fails, one whose bytes have not arrived yet is pending.
VarIntRead(s, off) ==
    With(VarIntDecode(SubSeq(s.bytes, off + 1, Len(s.bytes))), LAMBDA d :
      IF s.status = "reset" THEN [st |-> "err", value |-> 0, next |-> off]
      ELSE IF d.ok THEN [st |-> "ok", value |-> d.value, next |-> off + d.size]
      ELSE IF s.status = "fin" THEN [st |-> "err", value |-> 0, next |-> off]
      ELSE [st |-> "pending", value |-> 0, next |-> off])

\* decode_uni without the comparison of the session id.
decode_uni_unchecked(s, expected_session) ==
    With(VarIntRead(s, 0), LAMBDA typ :
      IF typ.st # "ok" THEN [st |-> typ.st, typ |-> 0]
      ELSE IF typ.value = WEBTRANSPORT
        THEN With(VarIntRead(s, typ.next), LAMBDA id :
               IF id.st # "ok" THEN [st |-> id.st, typ |-> 0]
               ELSE [st |-> "ok", typ |-> typ.value])
        ELSE [st |-> "ok", typ |-> typ.value])

\* H3SessionAccept::decode_uni: st is "pending" while the header is
\* incomplete, "err" for Err(UnknownSession), "ok" for Ok((typ, recv)).
decode_uni(s, expected_session) ==
    With(VarIntRead(s, 0), LAMBDA typ :
      IF typ.st # "ok" THEN [st |-> typ.st, typ |-> 0]
      ELSE IF typ.value = WEBTRANSPORT
        THEN With(VarIntRead(s, typ.next), LAMBDA id :
               IF id.st # "ok" THEN [st |-> id.st, typ |-> 0]
               ELSE IF id.value # expected_session THEN [st |-> "err", typ |-> 0]
               ELSE [st |-> "ok", typ |-> typ.value])
        ELSE [st |-> "ok", typ |-> typ.value])

\* decode_bi without the comparison of the session id.
decode_bi_unchecked(s, expected_session) ==
    With(VarIntRead(s, 0), LAMBDA typ :
      IF typ.st # "ok" THEN [st |-> typ.st, some |-> FALSE]
      ELSE IF typ.value # FRAME_WEBTRANSPORT THEN [st |-> "ok", some |-> FALSE]
      ELSE With(VarIntRead(s, typ.next), LAMBDA id :
             IF id.st # "ok" THEN [st |-> id.st, some |-> FALSE]
             ELSE [st |-> "ok", some |-> TRUE]))

\* H3SessionAccept::decode_bi: "ok" with some = FALSE is Ok(None).
decode_bi(s, expected_session) ==
    With(VarIntRead(s, 0), LAMBDA typ :
      IF typ.st # "ok" THEN [st |-> typ.st, some |-> FALSE]
      ELSE IF typ.value # FRAME_WEBTRANSPORT THEN [st |-> "ok", some |-> FALSE]
      ELSE With(VarIntRead(s, typ.next), LAMBDA id :
             IF id.st # "ok" THEN [st |-> id.st, some |-> FALSE]
             ELSE IF id.value # expected_session THEN [st |-> "err", some |-> FALSE]
             ELSE [st |-> "ok", some |-> TRUE]))

\* The orders in which FuturesUnordered can yield the completed decodes.
RECURSIVE Perms(_)
Perms(S) ==
    IF S = {} THEN { << >> }
    ELSE UNION { { << x >> \o p : p \in Perms(S \ {x}) } : x \in S }

\* Conn::accept_uni / accept_bi as polled at the top of the loop: every
\* queued stream of the direction is pushed to the pending collection.
\* An accept loop that pushes nothing to the pending collection.
DrainAccept_skip(ss, dir) == ss

RECURSIVE DrainAccept(_, _)
DrainAccept(ss, dir) ==
    IF ss = << >> THEN << >>
    ELSE << IF Head(ss).dir = dir /\ Head(ss).loc = "queued"
            THEN [Head(ss) EXCEPT !.loc = "pending"] ELSE Head(ss) >>
         \o DrainAccept(Tail(ss), dir)

\* Dropping a quinn::RecvStream (and the SendStream of a bidirectional one).
Dropped(s) == [s EXCEPT !.loc = "dropped"]

\* Assigning Some(recv) to qpack_encoder / qpack_decoder drops the stream
\* the field held before.
Drop(ss, o) == IF IsSome(o) THEN [ss EXCEPT ![Unwrap(o)] = Dropped(@)] ELSE ss

\* A loop of poll_accept_uni that returns the error of a failed decode to
\* the caller.
RECURSIVE LoopUni_propagate(_, _, _, _, _)
LoopUni_propagate(order, ss, qe, qd, sid) ==
    IF order = << >>
    THEN [streams |-> ss, qe |-> qe, qd |-> qd, ret |-> Pending]
    ELSE With(Head(order), LAMBDA i : With(decode_uni(ss[i], sid), LAMBDA res :
           IF res.st = "err"
           THEN [streams |-> [ss EXCEPT ![i] = Dropped(@)],
                 qe |-> qe, qd |-> qd, ret |-> RetErr("UnknownSession")]
           ELSE IF res.typ = WEBTRANSPORT
           THEN [streams |-> [ss EXCEPT ![i].loc = "surfaced"],
                 qe |-> qe, qd |-> qd, ret |-> RetOk(i)]
           ELSE IF res.typ = QPACK_DECODER
           THEN LoopUni_propagate(Tail(order), [Drop(ss, qd) EXCEPT ![i].loc = "qpack"],
                                  qe, Some(i), sid)
           ELSE IF res.typ = QPACK_ENCODER
           THEN LoopUni_propagate(Tail(order), [Drop(ss, qe) EXCEPT ![i].loc = "qpack"],
                                  Some(i), qd, sid)
           ELSE LoopUni_propagate(Tail(order), [ss EXCEPT ![i] = Dropped(@)], qe, qd, sid)))

\* The loop of poll_accept_uni over the completed decodes, in the order
\* pending_uni yields them.
RECURSIVE LoopUni(_, _, _, _, _)
LoopUni(order, ss, qe, qd, sid) ==
    IF order = << >>
    THEN [streams |-> ss, qe |-> qe, qd |-> qd, ret |-> Pending]
    ELSE With(Head(order), LAMBDA i : With(decode_uni(ss[i], sid), LAMBDA res :
           IF res.st = "err"
           THEN LoopUni(Tail(order), [ss EXCEPT ![i] = Dropped(@)], qe, qd, sid)
           ELSE IF res.typ = WEBTRANSPORT
           THEN [streams |-> [ss EXCEPT ![i].loc = "surfaced"],
                 qe |-> qe, qd |-> qd, ret |-> RetOk(i)]
           ELSE IF res.typ = QPACK_DECODER
           THEN LoopUni(Tail(order), [Drop(ss, qd) EXCEPT ![i].loc = "qpack"],
                        qe, Some(i), sid)
           ELSE IF res.typ = QPACK_ENCODER
           THEN LoopUni(Tail(order), [Drop(ss, qe) EXCEPT ![i].loc = "qpack"],
                        Some(i), qd, sid)
           ELSE LoopUni(Tail(order), [ss EXCEPT ![i] = Dropped(@)], qe, qd, sid)))

\* A loop of poll_accept_bi that returns the error of a failed decode to
\* the caller.
RECURSIVE LoopBi_propagate(_, _, _)
LoopBi_propagate(order, ss, sid) ==
    IF order = << >>
    THEN [streams |-> ss, ret |-> Pending]
    ELSE With(Head(order), LAMBDA i : With(decode_bi(ss[i], sid), LAMBDA res :
           IF res.st = "err"
           THEN [streams |-> [ss EXCEPT ![i] = Dropped(@)], ret |-> RetErr("UnknownSession")]
           ELSE IF res.some
           THEN [streams |-> [ss EXCEPT ![i].loc = "surfaced"], ret |-> RetOk(i)]
           ELSE LoopBi_propagate(Tail(order), [ss EXCEPT ![i] = Dropped(@)], sid)))

\* The loop of poll_accept_bi.
RECURSIVE LoopBi(_, _, _)
LoopBi(order, ss, sid) ==
    IF order = << >>
    THEN [streams |-> ss, ret |-> Pending]
    ELSE With(Head(order), LAMBDA i : With(decode_bi(ss[i], sid), LAMBDA res :
           IF res.st = "err"
           THEN LoopBi(Tail(order), [ss EXCEPT ![i] = Dropped(@)], sid)
           ELSE IF res.some
           THEN [streams |-> [ss EXCEPT ![i].loc = "surfaced"], ret |-> RetOk(i)]
           ELSE LoopBi(Tail(order), [ss EXCEPT ![i] = Dropped(@)], sid)))

\* Decodes taken in the order of acceptance: one that is incomplete holds
\* back the streams accepted after it.
Completed_in_order(ss, dir, sid) ==
    { i \in DOMAIN ss :
        /\ ss[i].dir = dir /\ ss[i].loc = "pending"
        /\ \A k \in 1..i :
              ss[k].dir = dir /\ ss[k].loc = "pending" =>
                 IF dir = "uni" THEN decode_uni(ss[k], sid).st # "pending"
                                ELSE decode_bi(ss[k], sid).st # "pending" }
\* The decodes of pending_uni or pending_bi that complete when polled.
Completed(ss, dir, sid) ==
    { i \in DOMAIN ss :
        /\ ss[i].dir = dir /\ ss[i].loc = "pending"
        /\ IF dir = "uni" THEN decode_uni(ss[i], sid).st # "pending"
                          ELSE decode_bi(ss[i], sid).st # "pending" }

Queued(ss, dir) == { i \in DOMAIN ss : ss[i].dir = dir /\ ss[i].loc = "queued" }

Min(S) == CHOOSE x \in S : \A y \in S : x <= y

\* What the peer may write at the start of a unidirectional stream: a
\* WebTransport header for our session, one for another session, the two
\* QPACK stream types, and another type (0x00, the HTTP/3 control stream).
PeerUniHeaders(sid) ==
    { header_uni_of(sid), header_uni_of(sid + 4),
      VarIntEncode(QPACK_ENCODER), VarIntEncode(QPACK_DECODER),
      << 0 >> }

\* What the peer may write at the start of a bidirectional stream: a
\* WebTransport header for our session, one for another session, and
\* another frame type (0x00, HTTP/3 DATA).
PeerBiHeaders(sid) ==
    { header_bi_of(sid), header_bi_of(sid + 4), << 0 >> }

PeerHeaders(dir, sid) == IF dir = "uni" THEN PeerUniHeaders(sid) ELSE PeerBiHeaders(sid)

\* The session id the peer frames with: ours on an H3 session; a raw
\* session has none and the peer's bytes are application data.
PeerSessionId == IF IsSome(sess.h3) THEN Unwrap(sess.h3).session_id ELSE 0

IsPrefix(p, q) == Len(p) <= Len(q) /\ SubSeq(q, 1, Len(p)) = p

\* The bytes the peer may send next on a stream: those that keep what it
\* has sent a prefix of one of its headers.
NextBytes(s, sid) ==
    { h[Len(s.bytes) + 1] : h \in { g \in PeerHeaders(s.dir, sid) :
                                       /\ Len(g) > Len(s.bytes)
                                       /\ IsPrefix(s.bytes, g) } }

NewStream(dir) == [dir |-> dir, bytes |-> << >>, status |-> "open", loc |-> "queued"]

\* The peer opens a stream towards us.
PeerOpen(dir) ==
    /\ ~connClosed
    /\ Len(incoming) < MaxIn
    /\ incoming' = Append(incoming, NewStream(dir))
    /\ UNCHANGED << sess, connClosed, qpack_encoder, qpack_decoder, uniRet, biRet, surfaced, uniCalls >>
    /\ UNCHANGED << openVars, dgramVars, connVars, codeVars >>

Unread(s) == s.loc \in {"queued", "pending"}

\* One more byte of a stream arrives.
PeerDeliver ==
    /\ ~connClosed
    /\ \E i \in DOMAIN incoming :
          /\ Unread(incoming[i])
          /\ incoming[i].status = "open"
          /\ \E b \in NextBytes(incoming[i], PeerSessionId) :
                incoming' = [incoming EXCEPT ![i].bytes = Append(@, b)]
    /\ UNCHANGED << sess, connClosed, qpack_encoder, qpack_decoder, uniRet, biRet, surfaced, uniCalls >>
    /\ UNCHANGED << openVars, dgramVars, connVars, codeVars >>

\* The peer finishes a stream in the middle of a header.
PeerFinish ==
    /\ ~connClosed
    /\ \E i \in DOMAIN incoming :
          /\ Unread(incoming[i])
          /\ incoming[i].status = "open"
          /\ incoming[i].bytes \notin PeerHeaders(incoming[i].dir, PeerSessionId)
          /\ incoming' = [incoming EXCEPT ![i].status = "fin"]
    /\ UNCHANGED << sess, connClosed, qpack_encoder, qpack_decoder, uniRet, biRet, surfaced, uniCalls >>
    /\ UNCHANGED << openVars, dgramVars, connVars, codeVars >>

\* The peer resets a stream whose header we have not read yet: the bytes
\* that arrived are discarded.
PeerReset ==
    /\ ~connClosed
    /\ \E i \in DOMAIN incoming :
          /\ Unread(incoming[i])
          /\ incoming[i].status = "open"
          /\ incoming' = [incoming EXCEPT ![i].status = "reset"]
    /\ UNCHANGED << sess, connClosed, qpack_encoder, qpack_decoder, uniRet, biRet, surfaced, uniCalls >>
    /\ UNCHANGED << openVars, dgramVars, connVars, codeVars >>

\* The connection is closed (by either side, or lost).
ConnClose ==
    /\ ~connClosed
    /\ connClosed' = TRUE
    /\ UNCHANGED << sess, acceptVars, openVars, dgramVars, connVars, codeVars >>

\* Session::accept_uni on a raw session: Connection::accept_uni.
RawAccept(dir) ==
    IF Queued(incoming, dir) # {}
    THEN LET i == Min(Queued(incoming, dir)) IN
         [streams |-> [incoming EXCEPT ![i].loc = "surfaced"], ret |-> RetOk(i)]
    ELSE [streams |-> incoming,
          ret |-> IF connClosed THEN RetErr("ConnectionError") ELSE Pending]

Surface(ret) == IF ret.tag = "Ok" THEN Append(surfaced, ret.stream) ELSE surfaced

\* A mutex whose guard a waiting accept call keeps until the call returns.
accept_lock_across_await ==
    { dir \in {"uni", "bi"} : (IF dir = "uni" THEN uniRet ELSE biRet) = Pending }
\* The accept calls that hold the mutex of H3SessionState::accept between
\* two polls: the guard of h3.accept.lock() is a temporary of the closure
\* given to poll_fn and is released when the poll returns, so none does.
accept_lock == {}

\* The accept_uni calls that run side by side on one session or on clones
\* of it, each in a task of its own.
Callers == {1, 2}

\* No such call has been made; waker is the caller whose waker the accept
\* stream and pending_uni hold (0: none).
NoCalls == [waker |-> 0, ret |-> [c \in Callers |-> Idle]]

\* One poll of Session::accept_uni (H3SessionAccept::poll_accept_uni on an
\* H3 session): the queued streams move to pending_uni; once the accept
\* queue is empty a closed connection ends the poll with its error;
\* otherwise the completed decodes are handled in the order pending_uni
\* yields them.
poll_accept_uni(sid) ==
    \E ss \in { DrainAccept(incoming, "uni") } :
       IF connClosed
       THEN /\ incoming' = ss
            /\ uniRet' = RetErr("ConnectionError")
            /\ UNCHANGED << qpack_encoder, qpack_decoder, surfaced >>
       ELSE \E order \in Perms(Completed(ss, "uni", sid)) :
            \E r \in { LoopUni(order, ss, qpack_encoder, qpack_decoder, sid) } :
               /\ incoming' = r.streams
               /\ qpack_encoder' = r.qe
               /\ qpack_decoder' = r.qd
               /\ uniRet' = r.ret
               /\ surfaced' = Surface(r.ret)

AcceptUniPoll ==
    /\ IF IsSome(sess.h3)
       THEN accept_lock \subseteq {"uni"} /\ poll_accept_uni(Unwrap(sess.h3).session_id)
       ELSE \E r \in { RawAccept("uni") } :
               /\ incoming' = r.streams
               /\ uniRet' = r.ret
               /\ surfaced' = Surface(r.ret)
               /\ UNCHANGED << qpack_encoder, qpack_decoder >>
    /\ UNCHANGED << sess, connClosed, biRet, uniCalls >>
    /\ UNCHANGED << openVars, dgramVars, connVars, codeVars >>

\* One poll of Session::accept_bi (H3SessionAccept::poll_accept_bi on an H3
\* session).
poll_accept_bi(sid) ==
    \E ss \in { DrainAccept(incoming, "bi") } :
       IF connClosed
       THEN /\ incoming' = ss
            /\ biRet' = RetErr("ConnectionError")
            /\ UNCHANGED surfaced
       ELSE \E order \in Perms(Completed(ss, "bi", sid)) :
            \E r \in { LoopBi(order, ss, sid) } :
               /\ incoming' = r.streams
               /\ biRet' = r.ret
               /\ surfaced' = Surface(r.ret)

AcceptBiPoll ==
    /\ IF IsSome(sess.h3)
       THEN accept_lock \subseteq {"bi"} /\ poll_accept_bi(Unwrap(sess.h3).session_id)
       ELSE \E r \in { RawAccept("bi") } :
               /\ incoming' = r.streams
               /\ biRet' = r.ret
               /\ surfaced' = Surface(r.ret)
    /\ UNCHANGED << sess, connClosed, qpack_encoder, qpack_decoder, uniRet, uniCalls >>
    /\ UNCHANGED << openVars, dgramVars, connVars, codeVars >>

\* A returned stream whose decode is still in the collection.
Kept(ss) ==
    [i \in DOMAIN ss |->
       IF ss[i].dir = "uni" /\ ss[i].loc = "surfaced"
       THEN [ss[i] EXCEPT !.loc = "pending"] ELSE ss[i]]
\* One poll by a caller whose clone has a demultiplexer of its own, which
\* does not know what the other has returned.
SharedPoll_own(c) ==
    /\ IsSome(sess.h3)
    /\ uniCalls.ret[c] \in {Idle, Pending}
    /\ \E ss \in { DrainAccept(Kept(incoming), "uni") } :
       \E order \in Perms(Completed(ss, "uni", Unwrap(sess.h3).session_id)) :
       \E r \in { LoopUni(order, ss, qpack_encoder, qpack_decoder,
                           Unwrap(sess.h3).session_id) } :
          /\ ~connClosed
          /\ incoming' = r.streams
          /\ qpack_encoder' = r.qe
          /\ qpack_decoder' = r.qd
          /\ uniRet' = r.ret
          /\ surfaced' = Surface(r.ret)
          /\ uniCalls' = [waker |-> c, ret |-> [uniCalls.ret EXCEPT ![c] = r.ret]]
    /\ UNCHANGED << sess, connClosed, biRet >>
    /\ UNCHANGED << openVars, dgramVars, connVars, codeVars >>
\* One poll of the accept_uni call of caller c, made for the first time or
\* again: h3.accept is behind an Arc, so every caller polls the one
\* H3SessionAccept, under its mutex.  The accept stream and pending_uni
\* keep the waker of the poll that found them pending, which is from now on
\* the one that is woken.
SharedPoll(c) ==
    /\ IsSome(sess.h3)
    /\ uniCalls.ret[c] \in {Idle, Pending}
    /\ accept_lock \subseteq {"uni"}
    /\ poll_accept_uni(Unwrap(sess.h3).session_id)
    /\ uniCalls' = [waker |-> IF connClosed THEN uniCalls.waker ELSE c,
                    ret |-> [uniCalls.ret EXCEPT ![c] = uniRet']]
    /\ UNCHANGED << sess, connClosed, biRet >>
    /\ UNCHANGED << openVars, dgramVars, connVars, codeVars >>

vars == << sess, connClosed, acceptVars, openVars, dgramVars, connVars, codeVars >>

\* The parts of the program a specification does not exercise stay as
\* constructed.
NoResult == [tag |-> "Idle"]

IdleOpenVars == calls = << >>

IdleDgramVars ==
    /\ dgQueue = << >>
    /\ dgRead = NoResult
    /\ dgSent = NoResult
    /\ mtu = None
    /\ mdsRet = NoResult

IdleConnVars ==
    /\ biStreams = << >>
    /\ closeFrames = {}
    /\ ends = << >>

\* Server::new: no connection yet, the accept collection empty, no call.
NoServer == [conns |-> << >>, closed |-> FALSE, ret |-> [tag |-> "Idle", conn |-> 0]]

IdleCodeVars == xfer = [op |-> "none"] /\ srv = NoServer

InitAcceptVars ==
    /\ incoming = << >>
    /\ qpack_encoder = None
    /\ qpack_decoder = None
    /\ uniRet = Idle
    /\ biRet = Idle
    /\ surfaced = << >>
    /\ uniCalls = NoCalls

InitAccept ==
    /\ sess \in {Session_raw} \cup { Session_new_h3(id) : id \in SessionIds }
    /\ connClosed = FALSE
    /\ InitAcceptVars
    /\ IdleOpenVars
    /\ IdleDgramVars
    /\ IdleConnVars
    /\ IdleCodeVars

\* The accept side of a session whose peer opens unidirectional streams.
NextAcceptUni ==
    \/ PeerOpen("uni")
    \/ PeerDeliver
    \/ PeerFinish
    \/ PeerReset
    \/ ConnClose
    \/ AcceptUniPoll

SpecAcceptUni == InitAccept /\ [][NextAcceptUni]_vars

\* The application keeps calling accept_uni.
LiveAcceptUni == SpecAcceptUni /\ WF_vars(AcceptUniPoll)

\* The accept side of a session whose peer opens bidirectional streams.
NextAcceptBi ==
    \/ PeerOpen("bi")
    \/ PeerDeliver
    \/ PeerFinish
    \/ PeerReset
    \/ ConnClose
    \/ AcceptBiPoll

SpecAcceptBi == InitAccept /\ [][NextAcceptBi]_vars

\* The accept side of a session whose peer opens streams of both
\* directions, with accept_uni and accept_bi called side by side.
NextAccept ==
    \/ PeerOpen("uni")
    \/ PeerOpen("bi")
    \/ PeerDeliver
    \/ PeerFinish
    \/ PeerReset
    \/ ConnClose
    \/ AcceptUniPoll
    \/ AcceptBiPoll

SpecAccept == InitAccept /\ [][NextAccept]_vars

\* A cancellation that takes the header decodes with it, as it would if
\* the pending collection belonged to the call.
CancelAccept_owned(dir) ==
    /\ IF dir = "uni" THEN uniRet = Pending ELSE biRet = Pending
    /\ uniRet' = IF dir = "uni" THEN Idle ELSE uniRet
    /\ biRet' = IF dir = "bi" THEN Idle ELSE biRet
    /\ incoming' = [i \in DOMAIN incoming |->
                      IF incoming[i].dir = dir /\ incoming[i].loc = "pending"
                      THEN Dropped(incoming[i]) ELSE incoming[i]]
    /\ UNCHANGED << qpack_encoder, qpack_decoder, surfaced >>
    /\ UNCHANGED << sess, connClosed, uniCalls, openVars, dgramVars, connVars, codeVars >>
\* The application drops a waiting accept_uni or accept_bi call: the future
\* holds the session's handle only; pending_uni and pending_bi belong to the
\* H3SessionAccept behind the mutex, the accept queue to the connection.
CancelAccept(dir) ==
    /\ IF dir = "uni" THEN uniRet = Pending ELSE biRet = Pending
    /\ uniRet' = IF dir = "uni" THEN Idle ELSE uniRet
    /\ biRet' = IF dir = "bi" THEN Idle ELSE biRet
    /\ UNCHANGED << incoming, qpack_encoder, qpack_decoder, surfaced >>
    /\ UNCHANGED << sess, connClosed, uniCalls, openVars, dgramVars, connVars, codeVars >>

\* Both accept calls, each of which the application may drop while it
\* waits and call again.
NextCalls ==
    \/ NextAccept
    \/ CancelAccept("uni")
    \/ CancelAccept("bi")

\* Two tasks call accept_uni on one H3 session while a third polls
\* accept_bi.
NextShared ==
    \/ PeerOpen("uni")
    \/ PeerOpen("bi")
    \/ PeerDeliver
    \/ PeerFinish
    \/ PeerReset
    \/ ConnClose
    \/ \E c \in Callers : SharedPoll(c)
    \/ AcceptBiPoll

\* An H3 session as connect_h3 builds it on the first request stream.
InitCalls ==
    /\ sess = Session_new_h3(0)
    /\ connClosed = FALSE
    /\ InitAcceptVars
    /\ IdleOpenVars
    /\ IdleDgramVars
    /\ IdleConnVars
    /\ IdleCodeVars

SpecCalls == InitCalls /\ [][NextCalls]_vars

SpecShared == InitCalls /\ [][NextShared]_vars

\* The runtime polls again the task whose waker the demultiplexer holds,
\* and no other: a task is polled when it is woken.
LiveShared ==
    SpecShared /\ \A c \in Callers :
       WF_vars(uniCalls.ret[c] = Pending /\ uniCalls.waker = c /\ SharedPoll(c))

\* The application keeps calling accept_uni and accept_bi.
LiveCalls == SpecCalls /\ WF_vars(AcceptUniPoll) /\ WF_vars(AcceptBiPoll)

(***************************************************************************)
(* Claims about the accept demultiplexer.                                  *)
(***************************************************************************)
H3 == IsSome(sess.h3)
OurId == Unwrap(sess.h3).session_id

\* The two VarInts at the start of what arrived on a stream.
FirstVarInt(s) == VarIntDecode(s.bytes)
SecondVarInt(s) ==
    VarIntDecode(SubSeq(s.bytes, FirstVarInt(s).size + 1, Len(s.bytes)))

\* A stream that starts with the complete header VarInt(typ) VarInt(OurId).
HasHeader(s, typ) ==
    /\ FirstVarInt(s).ok /\ FirstVarInt(s).value = typ
    /\ SecondVarInt(s).ok /\ SecondVarInt(s).value = OurId

SurfacedSet(dir) ==
    { i \in DOMAIN incoming : incoming[i].dir = dir /\ incoming[i].loc = "surfaced" }

\* C1: on an H3 session every unidirectional stream accept_uni has returned
\* (the one the latest call returned and all those returned before) starts
\* with VarInt(StreamUni::WEBTRANSPORT) followed by VarInt(session_id).
C1_AcceptUniOnlyOurs ==
    H3 =>
      /\ \A i \in SurfacedSet("uni") : HasHeader(incoming[i], WEBTRANSPORT)
      /\ \A k \in DOMAIN surfaced :
            incoming[surfaced[k]].dir = "uni" => HasHeader(incoming[surfaced[k]], WEBTRANSPORT)
      /\ uniRet.tag = "Ok" => HasHeader(incoming[uniRet.stream], WEBTRANSPORT)

\* accept_uni has returned a stream on an H3 session after an earlier
\* stream of the peer was rejected.
C1_Witness ==
    /\ H3
    /\ uniRet.tag = "Ok"
    /\ \E i \in DOMAIN incoming : i < uniRet.stream /\ incoming[i].loc = "dropped"

\* The header VarInt(WEBTRANSPORT) VarInt(session_id) of stream i has
\* arrived and the demultiplexer has not handled the stream yet.
HeaderArrivedUni(i) ==
    /\ H3
    /\ i \in DOMAIN incoming
    /\ incoming[i].dir = "uni"
    /\ Unread(incoming[i])
    /\ HasHeader(incoming[i], WEBTRANSPORT)

IsSurfaced(i) == i \in DOMAIN incoming /\ incoming[i].loc = "surfaced"
IsReset(i) == i \in DOMAIN incoming /\ incoming[i].status = "reset"

\* C2 as stated: while the connection stays open and the application keeps
\* calling accept_uni, a unidirectional stream whose header for our session
\* has arrived is eventually returned.
C2_Original ==
    \A i \in 1..MaxIn : HeaderArrivedUni(i) ~> (IsSurfaced(i) \/ connClosed)

\* C2 amended: the same, unless the peer resets the stream before the
\* demultiplexer has read its header.
C2_EventuallySurfaced ==
    \A i \in 1..MaxIn :
        (HeaderArrivedUni(i) /\ ~IsReset(i)) ~> (IsSurfaced(i) \/ connClosed \/ IsReset(i))

\* A stream for our session has been returned while an earlier stream is
\* still waiting for the rest of its header and another earlier one was
\* rejected.
C2_Witness ==
    /\ H3
    /\ Len(incoming) >= 2
    /\ incoming[Len(incoming)].loc = "surfaced"
    /\ incoming[Len(incoming)].dir = "uni"
    /\ incoming[1].loc \in {"pending", "dropped", "qpack"}

\* C3: on an H3 session every bidirectional stream accept_bi has returned
\* starts with VarInt(Frame::WEBTRANSPORT) followed by VarInt(session_id).
C3_AcceptBiOnlyOurs ==
    H3 =>
      /\ \A i \in SurfacedSet("bi") : HasHeader(incoming[i], FRAME_WEBTRANSPORT)
      /\ \A k \in DOMAIN surfaced :
            incoming[surfaced[k]].dir = "bi" => HasHeader(incoming[surfaced[k]], FRAME_WEBTRANSPORT)
      /\ biRet.tag = "Ok" => HasHeader(incoming[biRet.stream], FRAME_WEBTRANSPORT)

\* accept_bi has returned a stream on an H3 session after an earlier
\* stream of the peer was rejected.
C3_Witness ==
    /\ H3
    /\ biRet.tag = "Ok"
    /\ \E i \in DOMAIN incoming : i < biRet.stream /\ incoming[i].loc = "dropped"

\* The accept call of a direction, and the header type of its streams.
AcceptRet(dir) == IF dir = "uni" THEN uniRet ELSE biRet
HeaderType(dir) == IF dir = "uni" THEN WEBTRANSPORT ELSE FRAME_WEBTRANSPORT

\* A stream the demultiplexer keeps: one with our header that the peer has
\* not reset, or a QPACK stream.
Qualifies(s) == s.status # "reset" /\ HasHeader(s, HeaderType(s.dir))
IsQpack(s) ==
    /\ s.dir = "uni" /\ s.status # "reset"
    /\ FirstVarInt(s).ok /\ FirstVarInt(s).value \in {QPACK_ENCODER, QPACK_DECODER}

\* An accept call on an H3 session returns no error but that of a closed
\* connection.
C24_OnlyConnectionError ==
    H3 => \A dir \in {"uni", "bi"} :
       /\ AcceptRet(dir).tag \in {"Idle", "Pending", "Ok", "ConnectionError"}
       /\ AcceptRet(dir).tag = "ConnectionError" => connClosed

\* A stream the demultiplexer has done with in a step, and which it does
\* not keep, is dropped; the connection stays as it is and the accept call
\* of the stream's direction goes on waiting or returns another stream.
C24_DropStep ==
    H3 => \A i \in DOMAIN incoming :
       (Unread(incoming[i]) /\ ~Unread(incoming'[i])) =>
          /\ connClosed' = connClosed
          /\ (~Qualifies(incoming[i]) /\ ~IsQpack(incoming[i])) =>
                /\ incoming'[i].loc = "dropped"
                /\ AcceptRet(incoming[i].dir)'.tag \in {"Pending", "Ok"}
                /\ AcceptRet(incoming[i].dir)'.tag = "Ok" =>
                      AcceptRet(incoming[i].dir)'.stream # i

\* C24: on an H3 session accept_uni and accept_bi return no error other
\* than the connection's: a stream whose header decode fails (reset or
\* ended before the header is complete), whose session id is not ours or
\* whose type is unknown is dropped, the connection stays open and the
\* call waits on.
C24_AcceptSwallows == [] C24_OnlyConnectionError /\ [][C24_DropStep]_vars

\* On an open connection a stream of each direction was dropped and both
\* accept calls are waiting.
C24_Witness ==
    /\ H3 /\ ~connClosed
    /\ uniRet = Pending /\ biRet = Pending
    /\ \E i, j \in DOMAIN incoming :
          /\ incoming[i].dir = "uni" /\ incoming[i].loc = "dropped"
          /\ incoming[j].dir = "bi" /\ incoming[j].loc = "dropped"

\* A stream with a complete WebTransport header for another session.
Mismatched(s) ==
    /\ s.status # "reset"
    /\ FirstVarInt(s).ok /\ FirstVarInt(s).value = HeaderType(s.dir)
    /\ SecondVarInt(s).ok /\ SecondVarInt(s).value # OurId

\* The demultiplexer is done with stream i in this step.
Handled(i) == Unread(incoming[i]) /\ ~Unread(incoming'[i])

\* C25 as stated: the accept call of the direction, in the step in which
\* the demultiplexer detects the mismatch, returns UnknownSession.
C25_Original ==
    [][H3 => \A i \in DOMAIN incoming :
          (Handled(i) /\ Mismatched(incoming[i])) =>
             AcceptRet(incoming[i].dir)' = RetErr("UnknownSession")]_vars

\* The step that detects the mismatch drops the stream and leaves the
\* accept call waiting or returning another stream.
C25_DropStep ==
    H3 => \A i \in DOMAIN incoming :
       (Handled(i) /\ Mismatched(incoming[i])) =>
          /\ incoming'[i] = Dropped(incoming[i])
          /\ AcceptRet(incoming[i].dir)'.tag \in {"Pending", "Ok"}
          /\ AcceptRet(incoming[i].dir)'.tag = "Ok" =>
                AcceptRet(incoming[i].dir)'.stream # i

\* No accept call returns UnknownSession and no stream of another session
\* is returned or kept.
C25_NeverSurfaces ==
    H3 => /\ \A dir \in {"uni", "bi"} : AcceptRet(dir).tag # "UnknownSession"
          /\ \A i \in DOMAIN incoming :
                Mismatched(incoming[i]) => incoming[i].loc \in {"queued", "pending", "dropped"}

\* C25 (as the code has it): a session id that is not ours is fatal for
\* the stream, which is dropped and never returned; the UnknownSession
\* error of its decode is logged and not returned to the caller of
\* accept_uni or accept_bi, which waits on.
C25_MismatchSwallowed == [] C25_NeverSurfaces /\ [][C25_DropStep]_vars

\* A unidirectional stream with the header of another session was dropped
\* on an open connection and accept_uni is waiting.
C25_Witness ==
    /\ H3 /\ ~connClosed
    /\ uniRet = Pending
    /\ \E i \in DOMAIN incoming :
          /\ incoming[i].dir = "uni"
          /\ incoming[i].loc = "dropped"
          /\ Mismatched(incoming[i])


(***************************************************************************)
(* Opening streams: Session::open_uni, Session::open_bi and                *)
(* write_full_with_max_prio.                                               *)
(*                                                                         *)
(* A call is [kind, pc, stream, wire, prio, stopped, res]: pc is where the *)
(* call's future is ("open": awaiting Connection::open_uni/open_bi,        *)
(* "write": inside write_all, "done"), stream whether a QUIC stream was    *)
(* opened for it, wire the bytes written on that stream so far, prio the   *)
(* stream's priority, stopped whether the peer has sent STOP_SENDING, res  *)
(* the call's result ("none" while it runs).                               *)
(***************************************************************************)
\* Calls of open_uni / open_bi in one run.
MaxOut == 2
\* Application writes on one opened stream.
MaxAppWrites == 1

\* i32::MAX
PRIO_MAX == 2147483647

\* What the application writes on a stream it was handed.
AppData == << 255 >>

NewCall(kind) ==
    [kind |-> kind, pc |-> "open", stream |-> FALSE, wire |-> << >>,
     prio |-> 0, stopped |-> FALSE, res |-> "none"]

\* The header open_uni / open_bi writes on an H3 session.
HeaderOf(s, kind) ==
    IF kind = "uni" THEN Unwrap(s.h3).header_uni ELSE Unwrap(s.h3).header_bi

\* A single write that is taken to have written the whole buffer.
write_once(buf, written) == Len(written) >= 1
\* write_all returns Ok once every byte of buf has been written.
write_all_done(buf, written) == Len(written) >= Len(buf)

\* The application calls open_uni or open_bi.
OpenCall(kind) ==
    /\ Len(calls) < MaxOut
    /\ calls' = Append(calls, NewCall(kind))
    /\ UNCHANGED << sess, connClosed, acceptVars, dgramVars, connVars, codeVars >>

\* Connection::open_uni / open_bi resolves.  On a closed connection the call
\* ends with the connection error.  Otherwise the stream exists: a raw
\* session returns it at once, an H3 session raises its priority and starts
\* writing the header.
ConnOpen ==
    /\ \E i \in DOMAIN calls :
          /\ calls[i].pc = "open"
          /\ calls' = [calls EXCEPT ![i] =
                IF connClosed
                THEN [@ EXCEPT !.pc = "done", !.res = "ConnectionError"]
                ELSE IF IsSome(sess.h3)
                THEN [@ EXCEPT !.pc = "write", !.stream = TRUE, !.prio = PRIO_MAX]
                ELSE [@ EXCEPT !.pc = "done", !.stream = TRUE, !.res = "Ok"]]
    /\ UNCHANGED << sess, connClosed, acceptVars, dgramVars, connVars, codeVars >>

\* write_all makes progress: some more bytes of the header are written; when
\* the last one is, the priority goes back to 0 and the stream is returned.
WriteHeader ==
    /\ ~connClosed
    /\ \E i \in DOMAIN calls :
          /\ calls[i].pc = "write"
          /\ ~calls[i].stopped
          /\ \E hdr \in { HeaderOf(sess, calls[i].kind) } :
             \E n \in 1 .. (Len(hdr) - Len(calls[i].wire)) :
             \E w \in { calls[i].wire \o SubSeq(hdr, Len(calls[i].wire) + 1,
                                                 Len(calls[i].wire) + n) } :
                calls' = [calls EXCEPT ![i] =
                   IF write_all_done(hdr, w)
                   THEN [@ EXCEPT !.wire = w, !.prio = 0, !.pc = "done", !.res = "Ok"]
                   ELSE [@ EXCEPT !.wire = w]]
    /\ UNCHANGED << sess, connClosed, acceptVars, dgramVars, connVars, codeVars >>

\* A header write whose error returns before the priority is reset.
WriteFail_early ==
    /\ \E i \in DOMAIN calls :
          /\ calls[i].pc = "write"
          /\ connClosed \/ calls[i].stopped
          /\ calls' = [calls EXCEPT ![i] =
                [@ EXCEPT !.pc = "done",
                          !.res = IF connClosed THEN "ConnectionError"
                                  ELSE "WriteError"]]
    /\ UNCHANGED << sess, connClosed, acceptVars, dgramVars, connVars, codeVars >>
\* write_all fails: ConnectionLost becomes the session's connection error,
\* any other WriteError (here Stopped) a WebTransportError::WriteError.  The
\* priority goes back to 0 and the error is returned; the stream is dropped.
WriteFail ==
    /\ \E i \in DOMAIN calls :
          /\ calls[i].pc = "write"
          /\ connClosed \/ calls[i].stopped
          /\ calls' = [calls EXCEPT ![i] =
                [@ EXCEPT !.prio = 0, !.pc = "done",
                          !.res = IF connClosed THEN "ConnectionError"
                                  ELSE "WriteError"]]
    /\ UNCHANGED << sess, connClosed, acceptVars, dgramVars, connVars, codeVars >>

\* The peer sends STOP_SENDING for a stream we opened.
PeerStop ==
    /\ ~connClosed
    /\ \E i \in DOMAIN calls :
          /\ calls[i].stream
          /\ ~calls[i].stopped
          /\ calls' = [calls EXCEPT ![i].stopped = TRUE]
    /\ UNCHANGED << sess, connClosed, acceptVars, dgramVars, connVars, codeVars >>

\* The caller drops the future of open_uni / open_bi before it resolved.
CancelOpen ==
    /\ \E i \in DOMAIN calls :
          /\ calls[i].pc \in {"open", "write"}
          /\ calls' = [calls EXCEPT ![i] = [@ EXCEPT !.pc = "done", !.res = "Cancelled"]]
    /\ UNCHANGED << sess, connClosed, acceptVars, dgramVars, connVars, codeVars >>

\* The application writes on a stream it was handed.
AppWritten(c) ==
    IF IsSome(sess.h3) THEN Len(c.wire) - Len(HeaderOf(sess, c.kind)) ELSE Len(c.wire)

AppWrite ==
    /\ ~connClosed
    /\ \E i \in DOMAIN calls :
          /\ calls[i].res = "Ok"
          /\ ~calls[i].stopped
          /\ AppWritten(calls[i]) < MaxAppWrites * Len(AppData)
          /\ calls' = [calls EXCEPT ![i].wire = @ \o AppData]
    /\ UNCHANGED << sess, connClosed, acceptVars, dgramVars, connVars, codeVars >>

InitOpen ==
    /\ sess \in {Session_raw} \cup { Session_new_h3(id) : id \in SessionIds }
    /\ connClosed = FALSE
    /\ InitAcceptVars
    /\ IdleOpenVars
    /\ IdleDgramVars
    /\ IdleConnVars
    /\ IdleCodeVars

NextOpen ==
    \/ OpenCall("uni")
    \/ OpenCall("bi")
    \/ ConnOpen
    \/ WriteHeader
    \/ WriteFail
    \/ PeerStop
    \/ CancelOpen
    \/ AppWrite
    \/ ConnClose

SpecOpen == InitOpen /\ [][NextOpen]_vars

(***************************************************************************)
(* Claims about opening streams.                                           *)
(***************************************************************************)
StreamType(kind) == IF kind = "uni" THEN WEBTRANSPORT ELSE FRAME_WEBTRANSPORT
ExactHeader(kind) == VarIntEncode(StreamType(kind)) \o VarIntEncode(OurId)

\* C4: on an H3 session a call of open_uni / open_bi returns a stream only
\* when the complete header is on it, so the header precedes every
\* application byte; a call that did not return a stream (the header write
\* failed, the connection was closed, the call was dropped) leaves nothing
\* but header bytes on the stream, none of them written by the application.
C4_HeaderBeforeHandOver ==
    H3 => \A i \in DOMAIN calls :
             /\ calls[i].res = "Ok" => IsPrefix(ExactHeader(calls[i].kind), calls[i].wire)
             /\ calls[i].res # "Ok" =>
                   IsPrefix(calls[i].wire, ExactHeader(calls[i].kind))
             /\ calls[i].res \in {"WriteError", "ConnectionError"} =>
                   Len(calls[i].wire) < Len(ExactHeader(calls[i].kind))

\* A stream was handed over and written on by the application, and another
\* call failed in the middle of its header.
C4_Witness ==
    /\ H3
    /\ \E i \in DOMAIN calls :
          /\ calls[i].res = "Ok"
          /\ Len(calls[i].wire) > Len(ExactHeader(calls[i].kind))
    /\ \E j \in DOMAIN calls :
          /\ calls[j].res = "WriteError"
          /\ calls[j].wire # << >>

\* C5: on an H3 session the bytes on every stream opened by open_uni /
\* open_bi begin with VarInt(stream type) followed by VarInt(session_id),
\* StreamUni::WEBTRANSPORT for open_uni and Frame::WEBTRANSPORT for open_bi:
\* what is written is at every moment a prefix of that header or the header
\* followed by application bytes, and a returned stream decodes to the two
\* VarInts with nothing before or between them.
C5_ExactHeaderFirst ==
    H3 => \A i \in DOMAIN calls :
             /\ \/ IsPrefix(calls[i].wire, ExactHeader(calls[i].kind))
                \/ IsPrefix(ExactHeader(calls[i].kind), calls[i].wire)
             /\ calls[i].res = "Ok" =>
                   /\ HasHeader([bytes |-> calls[i].wire], StreamType(calls[i].kind))
                   /\ SubSeq(calls[i].wire, 1, Len(ExactHeader(calls[i].kind)))
                         = ExactHeader(calls[i].kind)

\* A unidirectional and a bidirectional stream were both returned.
C5_Witness ==
    /\ H3
    /\ \E i, j \in DOMAIN calls :
          /\ calls[i].kind = "uni" /\ calls[i].res = "Ok"
          /\ calls[j].kind = "bi" /\ calls[j].res = "Ok"


(***************************************************************************)
(* Datagrams: Session::read_datagram, send_datagram, max_datagram_size.    *)
(***************************************************************************)
\* Datagrams QUIC holds for read_datagram at one time.
MaxQueue == 1
\* The largest size Connection::max_datagram_size() reports.
MaxMtu == 3

Ok(x) == [tag |-> "Ok", value |-> x]
Err(e) == [tag |-> e]

\* read_datagram that strips a VarInt without comparing it.
read_datagram_any(s, datagram) ==
    IF IsSome(s.h3)
    THEN With(VarIntDecode(datagram), LAMBDA actual_id :
            IF ~actual_id.ok THEN Err("UnknownSession")
            ELSE Ok(SubSeq(datagram, actual_id.size + 1, Len(datagram))))
    ELSE Ok(datagram)

\* Session::read_datagram applied to the datagram Connection::read_datagram
\* returned.
read_datagram(s, datagram) ==
    IF IsSome(s.h3)
    THEN With(VarIntDecode(datagram), LAMBDA actual_id :
            IF ~actual_id.ok THEN Err("UnknownSession")
            ELSE IF actual_id.value # Unwrap(s.h3).session_id
                 THEN Err("UnknownSession")
                 ELSE Ok(SubSeq(datagram, actual_id.size + 1, Len(datagram))))
    ELSE Ok(datagram)

\* send_datagram that puts the header behind the data.
send_datagram_suffix(s, data) ==
    IF IsSome(s.h3) THEN data \o Unwrap(s.h3).header_datagram ELSE data

\* The bytes Session::send_datagram passes to Connection::send_datagram.
send_datagram(s, data) ==
    IF IsSome(s.h3) THEN Unwrap(s.h3).header_datagram \o data ELSE data

\* usize subtraction that wraps (16 bits stand for the word).
wrapping_sub(a, b) == (a - b) % 65536
\* usize::saturating_sub
saturating_sub(a, b) == IF a >= b THEN a - b ELSE 0

\* Session::max_datagram_size given Connection::max_datagram_size(): the
\* expect panics when the peer does not support datagrams.
max_datagram_size(s, m) ==
    IF ~IsSome(m) THEN Err("panic")
    ELSE IF IsSome(s.h3)
         THEN Ok(saturating_sub(Unwrap(m), Len(Unwrap(s.h3).header_datagram)))
         ELSE Ok(Unwrap(m))

\* The four-byte form of a VarInt below 256: a valid, non-minimal encoding.
VarIntEncode4(v) == << 128, 0, 0, v >>

\* What the peer puts in a datagram: our session id or another one, in the
\* shortest or in a longer form, with or without data behind it; a VarInt
\* cut short; nothing at all.
PeerPayloads(sid) ==
    { VarIntEncode(sid) \o t : t \in { << >>, << 7 >>, << 7, 64 >> } }
       \cup { VarIntEncode(sid + 4) \o << 7 >>,
              VarIntEncode4(sid) \o << 7 >>,
              << 64 >>, << 128, 0, 0 >>, << >> }

\* What the application sends.
SendData == { << >>, << 7 >>, << 0, 7 >> }

\* The peer's datagram arrives.
PeerDatagram ==
    /\ ~connClosed
    /\ Len(dgQueue) < MaxQueue
    /\ \E p \in PeerPayloads(PeerSessionId) : dgQueue' = Append(dgQueue, p)
    /\ UNCHANGED << sess, connClosed, acceptVars, openVars, connVars, codeVars >>
    /\ UNCHANGED << dgRead, dgSent, mtu, mdsRet >>

\* A call of read_datagram resolves: with the oldest datagram QUIC holds,
\* or, when there is none and the connection is closed, with its error.
ReadDatagram ==
    /\ IF dgQueue # << >>
       THEN /\ dgRead' = [payload |-> Head(dgQueue),
                          ret |-> read_datagram(sess, Head(dgQueue))]
            /\ dgQueue' = Tail(dgQueue)
       ELSE /\ connClosed
            /\ dgRead' = [payload |-> << >>, ret |-> Err("ConnectionError")]
            /\ UNCHANGED dgQueue
    /\ UNCHANGED << sess, connClosed, acceptVars, openVars, connVars, codeVars >>
    /\ UNCHANGED << dgSent, mtu, mdsRet >>

\* Connection::send_datagram on the framed bytes.
ConnSendDatagram(bytes) ==
    IF connClosed THEN Err("ConnectionLost")
    ELSE IF ~IsSome(mtu) THEN Err("UnsupportedByPeer")
    ELSE IF Len(bytes) > Unwrap(mtu) THEN Err("TooLarge")
    ELSE Ok(Len(bytes))

\* The application calls send_datagram.
SendDatagram ==
    /\ \E data \in SendData :
       \E bytes \in { send_datagram(sess, data) } :
          dgSent' = [data |-> data, submitted |-> bytes,
                     ret |-> ConnSendDatagram(bytes)]
    /\ UNCHANGED << sess, connClosed, acceptVars, openVars, connVars, codeVars >>
    /\ UNCHANGED << dgQueue, dgRead, mtu, mdsRet >>

\* The application calls max_datagram_size.
MaxDatagramSize ==
    /\ mdsRet' = [mtu |-> mtu, ret |-> max_datagram_size(sess, mtu)]
    /\ UNCHANGED << sess, connClosed, acceptVars, openVars, connVars, codeVars >>
    /\ UNCHANGED << dgQueue, dgRead, dgSent, mtu >>

\* The path's datagram size changes.
MtuChange ==
    /\ ~connClosed
    /\ IsSome(mtu)
    /\ \E m \in 0 .. MaxMtu : m # Unwrap(mtu) /\ mtu' = Some(m)
    /\ UNCHANGED << sess, connClosed, acceptVars, openVars, connVars, codeVars >>
    /\ UNCHANGED << dgQueue, dgRead, dgSent, mdsRet >>

InitDgram ==
    /\ sess \in {Session_raw} \cup { Session_new_h3(id) : id \in SessionIds }
    /\ connClosed = FALSE
    /\ InitAcceptVars
    /\ IdleOpenVars
    /\ IdleConnVars
    /\ dgQueue = << >>
    /\ dgRead = NoResult
    /\ dgSent = NoResult
    /\ mtu \in {None} \cup { Some(m) : m \in 0 .. MaxMtu }
    /\ mdsRet = NoResult
    /\ IdleCodeVars

NextDgram ==
    \/ PeerDatagram
    \/ ReadDatagram
    \/ SendDatagram
    \/ MaxDatagramSize
    \/ MtuChange
    \/ ConnClose

SpecDgram == InitDgram /\ [][NextDgram]_vars

(***************************************************************************)
(* Claims about datagrams.                                                 *)
(***************************************************************************)
\* Every encoding of v as a VarInt: the one-, two-, four- and eight-byte form.
EncodingsOf(v) ==
    (IF v < 64 THEN { << v >> } ELSE {})
       \cup (IF v < 16384 THEN { << 64 + (v \div 256), v % 256 >> } ELSE {})
       \cup { << 128, 0, v \div 256, v % 256 >>,
              << 192, 0, 0, 0, 0, 0, v \div 256, v % 256 >> }

\* The payload starts with a complete VarInt whose value is our session id.
StartsWithOurId(p) == \E enc \in EncodingsOf(OurId) : IsPrefix(enc, p)

HasRead == dgRead # NoResult /\ dgRead.ret.tag # "ConnectionError"

\* C7: on an H3 session read_datagram returns Ok exactly for a payload that
\* starts with a complete VarInt equal to the session id, in any of its
\* encodings, and then returns the payload without that VarInt; every other
\* payload gives UnknownSession; a raw session returns the whole payload.
C7_ReadDatagram ==
    HasRead =>
       IF H3
       THEN /\ dgRead.ret.tag = "Ok" <=> StartsWithOurId(dgRead.payload)
            /\ dgRead.ret.tag = "Ok" =>
                  \E enc \in EncodingsOf(OurId) :
                     dgRead.payload = enc \o dgRead.ret.value
            /\ dgRead.ret.tag # "Ok" => dgRead.ret.tag = "UnknownSession"
       ELSE dgRead.ret = Ok(dgRead.payload)

\* A datagram for our session, its id in a longer encoding, was read and
\* its data returned.
C7_Witness ==
    /\ H3
    /\ HasRead
    /\ dgRead.ret.tag = "Ok"
    /\ dgRead.ret.value # << >>
    /\ Len(dgRead.payload) - Len(dgRead.ret.value) = 4

\* C8: on an H3 session the bytes send_datagram submits are VarInt(session_id)
\* followed by the caller's data, len(header_datagram) + len(data) bytes in
\* all; on a raw session they are the caller's data.
C8_SendDatagram ==
    dgSent # NoResult =>
       IF H3
       THEN /\ dgSent.submitted = VarIntEncode(OurId) \o dgSent.data
            /\ Len(dgSent.submitted)
                  = Len(Unwrap(sess.h3).header_datagram) + Len(dgSent.data)
            /\ read_datagram(sess, dgSent.submitted) = Ok(dgSent.data)
       ELSE dgSent.submitted = dgSent.data

\* A datagram with data was sent on an H3 session and QUIC took it.
C8_Witness ==
    /\ H3
    /\ dgSent # NoResult
    /\ dgSent.data # << >>
    /\ dgSent.ret.tag = "Ok"

\* C9: where the connection reports a maximum datagram size,
\* max_datagram_size returns it minus len(header_datagram) on an H3 session,
\* 0 when it is smaller than the header, and returns it unchanged on a raw
\* session.
C9_MaxDatagramSize ==
    (mdsRet # NoResult /\ IsSome(mdsRet.mtu)) =>
       /\ mdsRet.ret.tag = "Ok"
       /\ IF H3
          THEN /\ Unwrap(mdsRet.mtu) >= Len(VarIntEncode(OurId)) =>
                     mdsRet.ret.value + Len(VarIntEncode(OurId)) = Unwrap(mdsRet.mtu)
               /\ Unwrap(mdsRet.mtu) < Len(VarIntEncode(OurId)) =>
                     mdsRet.ret.value = 0
          ELSE mdsRet.ret.value = Unwrap(mdsRet.mtu)

\* The connection's size was smaller than the header and 0 was returned.
C9_Witness ==
    /\ H3
    /\ mdsRet # NoResult
    /\ IsSome(mdsRet.mtu)
    /\ Unwrap(mdsRet.mtu) < Len(VarIntEncode(OurId))
    /\ mdsRet.ret = Ok(0)


(***************************************************************************)
(* 64-bit arithmetic.  A u32 or u64 is four 16-bit limbs, the most         *)
(* significant first, so that the HTTP/3 error codes (47 bits) can be      *)
(* computed exactly.                                                       *)
(***************************************************************************)
Base == 65536

U32(hi, lo) == << 0, 0, hi, lo >>

\* a + b, wrapping at 2^64.
AddU(a, b) ==
    LET s4 == a[4] + b[4]
        s3 == a[3] + b[3] + (s4 \div Base)
        s2 == a[2] + b[2] + (s3 \div Base)
        s1 == a[1] + b[1] + (s2 \div Base)
    IN  << s1 % Base, s2 % Base, s3 % Base, s4 % Base >>

\* a - b, wrapping at 2^64.
SubU(a, b) ==
    LET d4 == a[4] - b[4]
        d3 == a[3] - b[3] - (IF d4 < 0 THEN 1 ELSE 0)
        d2 == a[2] - b[2] - (IF d3 < 0 THEN 1 ELSE 0)
        d1 == a[1] - b[1] - (IF d2 < 0 THEN 1 ELSE 0)
    IN  << d1 % Base, d2 % Base, d3 % Base, d4 % Base >>

\* a / d for a small divisor d.
DivSmallU(a, d) ==
    LET x1 == a[1]
        x2 == (x1 % d) * Base + a[2]
        x3 == (x2 % d) * Base + a[3]
        x4 == (x3 % d) * Base + a[4]
    IN  << x1 \div d, x2 \div d, x3 \div d, x4 \div d >>

\* a < b
LtU(a, b) ==
    \E i \in 1 .. 4 : a[i] < b[i] /\ \A j \in 1 .. (i - 1) : a[j] = b[j]

\* web_transport_proto::ERROR_FIRST = 0x52e4a40fa8db, ERROR_LAST = 0x52e5ac983162
ERROR_FIRST == << 0, 21220, 41999, 43227 >>
ERROR_LAST == << 0, 21221, 44184, 12642 >>

\* error_to_http3 that skips a reserved code every 0x1f instead of 0x1e.
error_to_http3_1f(code) == AddU(AddU(ERROR_FIRST, code), DivSmallU(code, 31))
\* web_transport_proto::error_to_http3(code: u32) -> u64
error_to_http3(code) == AddU(AddU(ERROR_FIRST, code), DivSmallU(code, 30))

\* web_transport_proto::error_from_http3(code: u64) -> Option<u32>
error_from_http3(code) ==
    IF LtU(code, ERROR_FIRST) \/ LtU(ERROR_LAST, code) THEN None
    ELSE With(SubU(code, ERROR_FIRST), LAMBDA x : Some(SubU(x, DivSmallU(x, 31))))

\* u64 -> VarInt: only values below 2^62 convert.
VarIntFromU64(x) == IF x[1] < 16384 THEN Some(x) ELSE None

(***************************************************************************)
(* The two ends of one connection: the CONNECT exchange (connect.rs), the  *)
(* construction of the sessions and Session::close.                        *)
(*                                                                         *)
(* biStreams lists the client-initiated bidirectional streams in the order *)
(* of their ids: the k-th has id 4 * (k - 1).  Each is [content,           *)
(* protocols, accepted, response]: what the client wrote on it (a CONNECT  *)
(* request or something else), the subprotocols the request offered,       *)
(* whether the server has accepted it, and the response the server wrote   *)
(* ("none" so far, "closed" when the stream ended without one).  An end    *)
(* is [alpn, impl, sOpen, sAccept, frame, settings, connect, stream,       *)
(* result, session, closed, closeArg, drain]: sOpen and sAccept are the    *)
(* two halves of Settings::connect, frame the SETTINGS frame the end has   *)
(* written, settings what Settings::connect returned, result what the      *)
(* handshake call of the end returned.  The server is this library or a    *)
(* foreign implementation, which may disable WebTransport in its SETTINGS  *)
(* and answer a CONNECT request with anything.                             *)
(***************************************************************************)
\* Bidirectional streams the client application opens besides the CONNECT one.
MaxBi == 2
\* Capsules and stream events a peer writes on the CONNECT stream.
MaxCapsules == 3

Ends == {"client", "server"}
Peer(e) == IF e = "client" THEN "server" ELSE "client"

\* The codes and reasons an application closes with.
CloseCodes == { U32(0, 0), U32(0, 23), U32(0, 29), U32(0, 30), U32(65535, 65535) }
Reasons == { "", "bye" }

NotClosed == [tag |-> "Open"]

\* The subprotocol lists a client offers, and the names a response selects.
Offers == { {}, {"a", "b"} }
Selected == { None, Some("a"), Some("c") }
Statuses == { "200", "404" }

\* What the SETTINGS exchange and the CONNECT exchange fail with.
SettingsErrors == { "WebTransportUnsupported", "ConnectionError" }

NewEnd(alpn, impl) ==
    [alpn |-> alpn, impl |-> impl,
     sOpen |-> IF alpn = "h3" /\ impl = "lib" THEN "pending" ELSE "idle",
     sAccept |-> IF alpn = "h3" /\ impl = "lib" THEN "pending" ELSE "idle",
     frame |-> None, settings |-> "none", connect |-> "none", stream |-> 0,
     result |-> NoResult,
     session |-> IF alpn = "h3" THEN None ELSE Some(Session_raw),
     closed |-> NotClosed, closeArg |-> None, drain |-> "none",
     capsules |-> << >>, read |-> 0, drainRet |-> None]

\* An end that runs this library, on the H3 ALPN.
LibH3(e) == ends[e].alpn = "h3" /\ ends[e].impl = "lib"

\* The id of the k-th client-initiated bidirectional stream.
StreamId(k) == 4 * (k - 1)

\* A session id taken to be that of the connection's first stream.
session_id_first(k) == 0
\* Connected::session_id: the id of the CONNECT stream's send half.
Connected_session_id(k) == StreamId(k)

Unaccepted == { k \in DOMAIN biStreams : ~biStreams[k].accepted }

\* No response on a stream yet, and a stream that ended without one.
NoResponse == [status |-> "none", protocol |-> None]
StreamEnded == [status |-> "closed", protocol |-> None]

NewBi(content, protocols) ==
    [content |-> content, protocols |-> protocols, accepted |-> FALSE,
     response |-> NoResponse]

\* The client application opens a bidirectional stream of its own on the
\* connection and writes on it.
AppOpenBi ==
    /\ ends["client"].closed = NotClosed
    /\ Cardinality({ k \in DOMAIN biStreams : biStreams[k].content = "other" }) < MaxBi
    /\ biStreams' = Append(biStreams, NewBi("other", {}))
    /\ UNCHANGED << sess, connClosed, acceptVars, openVars, dgramVars, codeVars >>
    /\ UNCHANGED << closeFrames, ends >>

\* The server application accepts a bidirectional stream itself, before the
\* CONNECT exchange is started on its side.
AppAcceptBi ==
    /\ ends["server"].impl = "lib"
    /\ ends["server"].closed = NotClosed
    /\ ends["server"].connect = "none"
    /\ Unaccepted # {}
    /\ biStreams' = [biStreams EXCEPT ![Min(Unaccepted)].accepted = TRUE]
    /\ UNCHANGED << sess, connClosed, acceptVars, openVars, dgramVars, codeVars >>
    /\ UNCHANGED << closeFrames, ends >>

\* A join of the two halves that returns when both have finished.
join_all(open, accept) ==
    [open |-> open, accept |-> accept,
     ret |-> IF open = "pending" \/ accept = "pending" THEN "none"
             ELSE IF open \in SettingsErrors THEN open
             ELSE IF accept \in SettingsErrors THEN accept
             ELSE "ok"]
\* try_join!(send, recv) of Settings::connect, given what the two halves have
\* come to: the first error is returned and the half still pending is
\* dropped; two finished halves give the handle.
try_join(open, accept) ==
    [open |-> IF accept \in SettingsErrors /\ open = "pending" THEN "cancelled" ELSE open,
     accept |-> IF open \in SettingsErrors /\ accept = "pending" THEN "cancelled" ELSE accept,
     ret |-> IF open \in SettingsErrors THEN open
             ELSE IF accept \in SettingsErrors THEN accept
             ELSE IF open = "done" /\ accept = "done" THEN "ok"
             ELSE "none"]

\* Session::connect_h3 after Settings::connect: an error is returned at once.
connect_h3_settings(e, end) ==
    IF e = "client" /\ end.settings \in SettingsErrors
    THEN [end EXCEPT !.result = Err(end.settings)]
    ELSE end

\* Settings::connect at end e after one of its halves has moved.
Settings_connect(e, open, accept) ==
    With(try_join(open, accept), LAMBDA j :
       [ends EXCEPT ![e] = connect_h3_settings(e,
           [@ EXCEPT !.sOpen = j.open, !.sAccept = j.accept, !.settings = j.ret])])

\* The exchange of end e is still running.
Settings_running(e) == LibH3(e) /\ ends[e].settings = "none"

\* Settings::open: the SETTINGS frame, with WebTransport enabled, goes out
\* on a new unidirectional stream.
Settings_open(e) ==
    /\ Settings_running(e)
    /\ ends[e].sOpen = "pending"
    /\ ends[e].closed = NotClosed
    /\ ends' = [Settings_connect(e, "done", ends[e].sAccept) EXCEPT ![e].frame = Some(1)]
    /\ UNCHANGED << sess, connClosed, acceptVars, openVars, dgramVars, codeVars >>
    /\ UNCHANGED << biStreams, closeFrames >>

\* A read of the peer's SETTINGS frame that takes any frame.
Settings_accept_any(supports_webtransport) == "done"
\* Settings::accept on the frame read.
Settings_accept_frame(supports_webtransport) ==
    IF supports_webtransport = 0 THEN "WebTransportUnsupported" ELSE "done"

\* The peer's SETTINGS frame can be read only once the peer's whole exchange
\* has completed.
peer_settings_done(e) == ends[Peer(e)].settings = "ok"
\* The peer's SETTINGS frame can be read: the peer has written it.
peer_settings_written(e) == IsSome(ends[Peer(e)].frame)

\* Settings::accept: the peer's unidirectional stream is accepted and its
\* SETTINGS frame read.
Settings_accept(e) ==
    /\ Settings_running(e)
    /\ ends[e].sAccept = "pending"
    /\ ends[e].closed = NotClosed
    /\ peer_settings_written(e)
    /\ ends' = Settings_connect(e, ends[e].sOpen,
                                Settings_accept_frame(Unwrap(ends[Peer(e)].frame)))
    /\ UNCHANGED << sess, connClosed, acceptVars, openVars, dgramVars, codeVars >>
    /\ UNCHANGED << biStreams, closeFrames >>

\* The connection is closed under a running exchange: a half that is still
\* pending fails with the connection's error.
Settings_lost(e) ==
    /\ Settings_running(e)
    /\ ends[e].closed # NotClosed
    /\ \/ /\ ends[e].sOpen = "pending"
          /\ ends' = Settings_connect(e, "ConnectionError", ends[e].sAccept)
       \/ /\ ends[e].sAccept = "pending"
          /\ ends' = Settings_connect(e, ends[e].sOpen, "ConnectionError")
    /\ UNCHANGED << sess, connClosed, acceptVars, openVars, dgramVars, codeVars >>
    /\ UNCHANGED << biStreams, closeFrames >>

\* A connect_h3 that goes on to the CONNECT request whatever the settings.
connect_h3_any(settings) == TRUE
\* Session::connect_h3: Settings::connect(&conn).await? has returned Ok.
connect_h3_proceeds(settings) == settings = "ok"

\* Connected::open, first half (Session::connect_h3 calls it once the
\* settings are exchanged): a new bidirectional stream carries the CONNECT
\* request with the subprotocols offered.
Connected_open ==
    /\ LibH3("client")
    /\ ends["client"].closed = NotClosed
    /\ connect_h3_proceeds(ends["client"].settings)
    /\ ends["client"].result = NoResult
    /\ ends["client"].connect = "none"
    /\ \E protocols \in Offers :
          biStreams' = Append(biStreams, NewBi("connect", protocols))
    /\ ends' = [ends EXCEPT !["client"].connect = "sent",
                            !["client"].stream = Len(biStreams) + 1]
    /\ UNCHANGED << sess, connClosed, acceptVars, openVars, dgramVars, codeVars >>
    /\ UNCHANGED closeFrames

\* A check of the response that looks at the subprotocol first.
Connected_open_protocol_first(request, response) ==
    IF response = StreamEnded THEN Err("ProtoError")
    ELSE IF IsSome(response.protocol) /\ Unwrap(response.protocol) \notin request
    THEN [tag |-> "ProtocolMismatch", arg |-> Unwrap(response.protocol)]
    ELSE IF response.status # "200"
    THEN [tag |-> "ErrorStatus", arg |-> response.status]
    ELSE Ok(response)
\* A check of the response that takes any subprotocol.
Connected_open_any_protocol(request, response) ==
    IF response = StreamEnded THEN Err("ProtoError")
    ELSE IF response.status # "200"
    THEN [tag |-> "ErrorStatus", arg |-> response.status]
    ELSE Ok(response)
\* Connected::open on the response read, for a request that offered the
\* subprotocols `request`: a stream that ended without a response is an
\* error of ConnectResponse::read.
Connected_open_check(request, response) ==
    IF response = StreamEnded THEN Err("ProtoError")
    ELSE IF response.status # "200"
    THEN [tag |-> "ErrorStatus", arg |-> response.status]
    ELSE IF IsSome(response.protocol) /\ Unwrap(response.protocol) \notin request
    THEN [tag |-> "ProtocolMismatch", arg |-> Unwrap(response.protocol)]
    ELSE Ok(response)

\* Connected::open, second half, and the rest of Session::connect_h3: the
\* response is read and checked; an error fails the call, otherwise the
\* session is built (Session::new_h3) and its drain task starts.
Connected_response ==
    /\ ends["client"].closed = NotClosed
    /\ ends["client"].connect = "sent"
    /\ biStreams[ends["client"].stream].response # NoResponse
    /\ \E r \in { Connected_open_check(biStreams[ends["client"].stream].protocols,
                                       biStreams[ends["client"].stream].response) } :
          ends' = [ends EXCEPT !["client"] =
                IF r.tag = "Ok"
                THEN [@ EXCEPT !.connect = "ok", !.drain = "running",
                         !.result = Ok("Session"),
                         !.session = Some(Session_new_h3(
                                        Connected_session_id(ends["client"].stream)))]
                ELSE [@ EXCEPT !.connect = "failed", !.result = r]]
    /\ UNCHANGED << sess, connClosed, acceptVars, openVars, dgramVars, codeVars >>
    /\ UNCHANGED << biStreams, closeFrames >>

\* Connected::open on a closed connection: open_bi fails with the
\* connection's error, the read of the response with an error of
\* ConnectResponse::read; Session::connect_h3 returns it.
Connected_lost ==
    /\ LibH3("client")
    /\ ends["client"].closed # NotClosed
    /\ ends["client"].result = NoResult
    /\ \/ /\ ends["client"].settings = "ok"
          /\ ends["client"].connect = "none"
          /\ ends' = [ends EXCEPT !["client"].connect = "failed",
                                  !["client"].result = Err("ConnectionError")]
       \/ /\ ends["client"].connect = "sent"
          /\ ends' = [ends EXCEPT !["client"].connect = "failed",
                                  !["client"].result = Err("ProtoError")]
    /\ UNCHANGED << sess, connClosed, acceptVars, openVars, dgramVars, codeVars >>
    /\ UNCHANGED << biStreams, closeFrames >>

\* Connecting::accept: the next bidirectional stream of the connection is
\* accepted and a CONNECT request read from it; anything else on the stream
\* fails the call.
Connecting_accept ==
    /\ LibH3("server")
    /\ ends["server"].closed = NotClosed
    /\ ends["server"].connect = "none"
    /\ Unaccepted # {}
    /\ \E k \in { Min(Unaccepted) } :
          /\ biStreams' = [biStreams EXCEPT ![k].accepted = TRUE]
          /\ ends' = [ends EXCEPT !["server"] =
                IF biStreams[k].content = "connect"
                THEN [@ EXCEPT !.connect = "accepted", !.stream = k]
                ELSE [@ EXCEPT !.connect = "failed", !.result = Err("ProtoError")]]
    /\ UNCHANGED << sess, connClosed, acceptVars, openVars, dgramVars, codeVars >>
    /\ UNCHANGED closeFrames

\* A respond that writes whatever response it is given.
Connecting_respond_unchecked(request, response) == Ok(response)
\* Connecting::respond on its argument, for a request that offered the
\* subprotocols `request`: the validation that precedes the write.
Connecting_respond_check(request, response) ==
    IF IsSome(response.protocol) /\ Unwrap(response.protocol) \notin request
    THEN [tag |-> "ProtocolMismatch", arg |-> Unwrap(response.protocol)]
    ELSE Ok(response)

\* Connecting::respond or Connecting::reject: a response that passes the
\* validation is written on the accepted stream; one that does not is not
\* written, and the stream, dropped with the Connecting, ends without a
\* response.
Connecting_respond ==
    /\ ends["server"].closed = NotClosed
    /\ ends["server"].connect = "accepted"
    /\ \E status \in Statuses, protocol \in Selected :
       \E r \in { Connecting_respond_check(biStreams[ends["server"].stream].protocols,
                                           [status |-> status, protocol |-> protocol]) } :
          IF r.tag = "Ok"
          THEN /\ biStreams' = [biStreams EXCEPT ![ends["server"].stream].response = r.value]
               /\ ends' = [ends EXCEPT !["server"].connect =
                              IF status = "200" THEN "responded" ELSE "rejected"]
          ELSE /\ biStreams' = [biStreams EXCEPT ![ends["server"].stream].response = StreamEnded]
               /\ ends' = [ends EXCEPT !["server"].connect = "failed",
                                       !["server"].result = r]
    /\ UNCHANGED << sess, connClosed, acceptVars, openVars, dgramVars, codeVars >>
    /\ UNCHANGED closeFrames

\* Session::new_h3 on the server: from the exchanged settings and the
\* answered CONNECT stream; the drain task starts.
Server_new_h3 ==
    /\ ends["server"].closed = NotClosed
    /\ ends["server"].settings = "ok"
    /\ ends["server"].connect = "responded"
    /\ ~IsSome(ends["server"].session)
    /\ ends' = [ends EXCEPT !["server"] =
          [@ EXCEPT !.drain = "running", !.result = Ok("Session"),
                    !.session = Some(Session_new_h3(
                                   Connected_session_id(ends["server"].stream)))]]
    /\ UNCHANGED << sess, connClosed, acceptVars, openVars, dgramVars, codeVars >>
    /\ UNCHANGED << biStreams, closeFrames >>

\* A server that is not this library writes its SETTINGS frame, with or
\* without WebTransport.
ForeignSettings ==
    /\ ends["server"].alpn = "h3"
    /\ ends["server"].impl = "foreign"
    /\ ends["server"].closed = NotClosed
    /\ ~IsSome(ends["server"].frame)
    /\ \E supports_webtransport \in {0, 1} :
          ends' = [ends EXCEPT !["server"].frame = Some(supports_webtransport)]
    /\ UNCHANGED << sess, connClosed, acceptVars, openVars, dgramVars, codeVars >>
    /\ UNCHANGED << biStreams, closeFrames >>

\* A server that is not this library answers the CONNECT request with any
\* status and any subprotocol.
ForeignRespond ==
    /\ ends["server"].impl = "foreign"
    /\ ends["server"].closed = NotClosed
    /\ \E k \in DOMAIN biStreams, status \in Statuses, protocol \in Selected :
          /\ biStreams[k].content = "connect"
          /\ biStreams[k].response = NoResponse
          /\ biStreams' = [biStreams EXCEPT ![k].accepted = TRUE,
                              ![k].response = [status |-> status, protocol |-> protocol]]
    /\ UNCHANGED << sess, connClosed, acceptVars, openVars, dgramVars, codeVars >>
    /\ UNCHANGED << closeFrames, ends >>

\* A server that is not this library closes the connection.
ForeignClose ==
    /\ ends["server"].impl = "foreign"
    /\ ends["server"].closed = NotClosed
    /\ ends' = [ends EXCEPT !["server"].closed = [tag |-> "LocallyClosed"],
                            !["server"].closeArg = Some([code |-> U32(0, 0), reason |-> ""])]
    /\ closeFrames' = closeFrames \cup
                         {[to |-> "client", code |-> U32(0, 0), reason |-> ""]}
    /\ UNCHANGED << sess, connClosed, acceptVars, openVars, dgramVars, codeVars >>
    /\ UNCHANGED biStreams

\* Session::close that passes the code on as it is.
close_code_raw(s, code) == code
\* Session::close that translates the code on every session.
close_code_h3(s, code) == Unwrap(VarIntFromU64(error_to_http3(code)))
\* The code Session::close closes the connection with.
close_code(s, code) ==
    IF IsSome(s.h3) THEN Unwrap(VarIntFromU64(error_to_http3(code))) ELSE code

\* Connection::close at end e: the first close of a connection decides what
\* closed() reports; the peer is told with a CONNECTION_CLOSE frame.
Connection_close(e, code, reason) ==
    IF ends[e].closed = NotClosed
    THEN [ends |-> [ends EXCEPT ![e].closed = [tag |-> "LocallyClosed"]],
          frames |-> closeFrames \cup {[to |-> Peer(e), code |-> code, reason |-> reason]}]
    ELSE [ends |-> ends, frames |-> closeFrames]

\* The application calls Session::close(code, reason) at end e.
Close(e) ==
    /\ IsSome(ends[e].session)
    /\ ends[e].closed = NotClosed
    /\ \E code \in CloseCodes, reason \in Reasons :
       \E r \in { Connection_close(e, close_code(Unwrap(ends[e].session), code), reason) } :
          /\ ends' = [r.ends EXCEPT ![e].closeArg = Some([code |-> code, reason |-> reason])]
          /\ closeFrames' = r.frames
    /\ UNCHANGED << sess, connClosed, acceptVars, openVars, dgramVars, codeVars >>
    /\ UNCHANGED biStreams

\* The peer's CONNECTION_CLOSE reaches end e.
DeliverClose(e) ==
    /\ \E f \in closeFrames :
          /\ f.to = e
          /\ closeFrames' = closeFrames \ {f}
          /\ ends' = IF ends[e].closed = NotClosed
                     THEN [ends EXCEPT ![e].closed =
                             [tag |-> "ApplicationClosed", code |-> f.code,
                              reason |-> f.reason]]
                     ELSE ends
    /\ UNCHANGED << sess, connClosed, acceptVars, openVars, dgramVars, codeVars >>
    /\ UNCHANGED biStreams

\* What the peer writes on the CONNECT stream after the response: capsules
\* (Grease, of an unknown type, CloseWebTransportSession), bytes that are
\* no capsule ("Bad"), and the end of the stream.
CapsuleCodes == { U32(0, 0), U32(0, 30) }
Capsule(kind, code, reason) == [kind |-> kind, code |-> code, reason |-> reason]
Written ==
    { Capsule(kind, U32(0, 0), "") : kind \in {"Grease", "Unknown", "Bad", "End"} }
       \cup { Capsule("Close", code, "bye") : code \in CapsuleCodes }

\* A drain that gives up on a capsule of an unknown type.
run_closed_strict(capsule) ==
    CASE capsule.kind = "Close" -> Some([code |-> capsule.code, reason |-> capsule.reason])
      [] capsule.kind = "Grease" -> None
      [] capsule.kind = "Unknown" -> Some([code |-> U32(0, 1), reason |-> "capsule error"])
      [] capsule.kind = "End" -> Some([code |-> U32(0, 0), reason |-> "stream closed"])
      [] capsule.kind = "Bad" -> Some([code |-> U32(0, 1), reason |-> "capsule error"])
\* Connected::run_closed, one turn of its loop on what Capsule::read gave:
\* the (code, reason) it returns, or None when the loop goes on.
run_closed(capsule) ==
    CASE capsule.kind = "Close" -> Some([code |-> capsule.code, reason |-> capsule.reason])
      [] capsule.kind = "Grease" -> None
      [] capsule.kind = "Unknown" -> None
      [] capsule.kind = "End" -> Some([code |-> U32(0, 0), reason |-> "stream closed"])
      [] capsule.kind = "Bad" -> Some([code |-> U32(0, 1), reason |-> "capsule error"])

\* A drain task that returns without closing the session.
drain_return(e, ret) == [ends |-> ends, frames |-> closeFrames]
\* The drain task after run_closed: this2.close(code, reason.as_bytes()).
drain_close(e, ret) ==
    Connection_close(e, close_code(Unwrap(ends[e].session), ret.code), ret.reason)

\* The drain task of an H3 session (spawned by Session::new_h3) reads the
\* next thing on the CONNECT stream: it goes on after a Grease or unknown
\* capsule, and otherwise closes the session with what run_closed returns.
DrainRead(e) ==
    /\ ends[e].drain = "running"
    /\ ends[e].read < Len(ends[e].capsules)
    /\ \E ret \in { run_closed(ends[e].capsules[ends[e].read + 1]) } :
          IF ret = None
          THEN /\ ends' = [ends EXCEPT ![e].read = ends[e].read + 1]
               /\ UNCHANGED closeFrames
          ELSE \E r \in { drain_close(e, Unwrap(ret)) } :
                  /\ ends' = [r.ends EXCEPT ![e].read = ends[e].read + 1,
                                            ![e].drain = "done",
                                            ![e].drainRet = ret]
                  /\ closeFrames' = r.frames
    /\ UNCHANGED << sess, connClosed, acceptVars, openVars, dgramVars, codeVars >>
    /\ UNCHANGED biStreams

\* A drain task that takes a failed read like a capsule to skip and reads
\* again.
DrainClosed_retry(e) ==
    /\ ends[e].drain = "running"
    /\ ends[e].closed # NotClosed
    /\ UNCHANGED vars
\* The drain task on a closed connection: Capsule::read fails, run_closed
\* returns (1, "capsule error") and the task closes the session with it.
DrainClosed(e) ==
    /\ ends[e].drain = "running"
    /\ ends[e].closed # NotClosed
    /\ \E ret \in { [code |-> U32(0, 1), reason |-> "capsule error"] } :
       \E r \in { drain_close(e, ret) } :
          /\ ends' = [r.ends EXCEPT ![e].drain = "done", ![e].drainRet = Some(ret)]
          /\ closeFrames' = r.frames
    /\ UNCHANGED << sess, connClosed, acceptVars, openVars, dgramVars, codeVars >>
    /\ UNCHANGED biStreams

\* A peer that is not this library writes on the CONNECT stream of the
\* session of e, after its response and until it ends the stream.
ForeignCapsule(e) ==
    /\ ends[Peer(e)].impl = "foreign"
    /\ ends[Peer(e)].closed = NotClosed
    /\ ends[e].stream # 0
    /\ biStreams[ends[e].stream].response.status = "200"
    /\ Len(ends[e].capsules) < MaxCapsules
    /\ \A i \in DOMAIN ends[e].capsules : ends[e].capsules[i].kind # "End"
    /\ \E capsule \in Written :
          ends' = [ends EXCEPT ![e].capsules = Append(ends[e].capsules, capsule)]
    /\ UNCHANGED << sess, connClosed, acceptVars, openVars, dgramVars, codeVars >>
    /\ UNCHANGED << biStreams, closeFrames >>

\* The ALPN of a connection, and whether its server runs this library.
Connections ==
    { [alpn |-> "h3", server |-> "lib"], [alpn |-> "h3", server |-> "foreign"],
      [alpn |-> "raw", server |-> "lib"] }

InitConn ==
    /\ sess = Session_raw
    /\ connClosed = FALSE
    /\ InitAcceptVars
    /\ IdleOpenVars
    /\ IdleDgramVars
    /\ biStreams = << >>
    /\ closeFrames = {}
    /\ \E c \in Connections :
          ends = [e \in Ends |-> NewEnd(c.alpn, IF e = "server" THEN c.server ELSE "lib")]
    /\ IdleCodeVars

NextConn ==
    \/ AppOpenBi
    \/ AppAcceptBi
    \/ \E e \in Ends : Settings_open(e)
    \/ \E e \in Ends : Settings_accept(e)
    \/ \E e \in Ends : Settings_lost(e)
    \/ Connected_open
    \/ Connected_response
    \/ Connected_lost
    \/ Connecting_accept
    \/ Connecting_respond
    \/ Server_new_h3
    \/ ForeignSettings
    \/ ForeignRespond
    \/ ForeignClose
    \/ \E e \in Ends : Close(e)
    \/ \E e \in Ends : DeliverClose(e)
    \/ \E e \in Ends : DrainClosed(e)

SpecConn == InitConn /\ [][NextConn]_vars

\* The handshake calls of both ends are driven on: no step of the SETTINGS
\* exchange, of the CONNECT exchange or of the construction of a session
\* that can be taken is put off for ever.
LiveHandshake ==
    /\ SpecConn
    /\ \A e \in Ends : WF_vars(Settings_open(e)) /\ WF_vars(Settings_accept(e))
    /\ WF_vars(Connected_open) /\ WF_vars(Connected_response)
    /\ WF_vars(Connecting_accept) /\ WF_vars(Connecting_respond)
    /\ WF_vars(Server_new_h3)

\* An established H3 session of a client whose server is not this library:
\* the state Session::connect_h3 returns in, on the connection's first
\* bidirectional stream.
Established(end) ==
    [end EXCEPT !.sOpen = "done", !.sAccept = "done", !.frame = Some(1),
                !.settings = "ok", !.connect = "ok", !.stream = 1,
                !.result = Ok("Session"), !.drain = "running",
                !.session = Some(Session_new_h3(Connected_session_id(1)))]

InitDrain ==
    /\ sess = Session_raw
    /\ connClosed = FALSE
    /\ InitAcceptVars
    /\ IdleOpenVars
    /\ IdleDgramVars
    /\ biStreams = << [NewBi("connect", {}) EXCEPT
                          !.accepted = TRUE,
                          !.response = [status |-> "200", protocol |-> None]] >>
    /\ closeFrames = {}
    /\ ends = [e \in Ends |->
                 IF e = "client" THEN Established(NewEnd("h3", "lib"))
                 ELSE [NewEnd("h3", "foreign") EXCEPT !.frame = Some(1)]]
    /\ IdleCodeVars

NextDrain ==
    \/ \E e \in Ends : ForeignCapsule(e)
    \/ \E e \in Ends : DrainRead(e)
    \/ \E e \in Ends : DrainClosed(e)
    \/ \E e \in Ends : Close(e)
    \/ \E e \in Ends : DeliverClose(e)
    \/ ForeignClose

SpecDrain == InitDrain /\ [][NextDrain]_vars

\* The drain task is scheduled and the network delivers the close frames.
LiveDrain ==
    /\ SpecDrain
    /\ \A e \in Ends : WF_vars(DrainRead(e)) /\ WF_vars(DrainClosed(e))
    /\ \A e \in Ends : WF_vars(DeliverClose(e))

\* The network delivers the frames in flight.
LiveConn ==
    SpecConn /\ WF_vars(DeliverClose("client")) /\ WF_vars(DeliverClose("server"))

(***************************************************************************)
(* Claims about the session id and about close.                            *)
(***************************************************************************)
EndH3(e) == IsSome(ends[e].session) /\ IsSome(Unwrap(ends[e].session).h3)
StateH3(e) == Unwrap(Unwrap(ends[e].session).h3)

\* The stream the CONNECT request was written on.
ConnectStreams == { k \in DOMAIN biStreams : biStreams[k].content = "connect" }

FramesWith(e, id) ==
    /\ StateH3(e).session_id = id
    /\ StateH3(e).header_uni = VarIntEncode(WEBTRANSPORT) \o VarIntEncode(id)
    /\ StateH3(e).header_bi = VarIntEncode(FRAME_WEBTRANSPORT) \o VarIntEncode(id)
    /\ StateH3(e).header_datagram = VarIntEncode(id)

C6_IdOfConnectStream ==
    /\ \A e \in Ends : EndH3(e) =>
          \E k \in ConnectStreams : FramesWith(e, 4 * (k - 1))
    /\ (EndH3("client") /\ EndH3("server")) =>
          Unwrap(ends["client"].session) = Unwrap(ends["server"].session)

C6_IdStable ==
    \A e \in Ends : IsSome(ends[e].session) => ends'[e].session = ends[e].session

\* C6: the session id an H3 session frames and validates with, at either
\* end, is the id of the bidirectional stream the CONNECT request was sent
\* on; the headers are built from it; the two ends hold the same id; and a
\* session, once constructed, keeps its id and headers in every step.
C6_SessionId == [] C6_IdOfConnectStream /\ [][C6_IdStable]_vars

\* Both ends hold a session whose CONNECT stream was not the connection's
\* first stream, and the client has opened another stream since.
C6_Witness ==
    /\ EndH3("client") /\ EndH3("server")
    /\ StateH3("client").session_id = 4
    /\ Len(biStreams) = 3

ClosedWith(e) == Unwrap(ends[e].closeArg)

\* C10: when an end of an H3 session calls close(code, reason) and the peer
\* has not closed the connection itself, the peer's closed() comes to report
\* ApplicationClosed with a wire code c such that error_from_http3(c) is
\* Some(code), and with the reason passed to close.
C10_PeerSeesCode ==
    \A e \in Ends :
       (EndH3(e) /\ IsSome(ends[e].closeArg) /\ ends[Peer(e)].closed = NotClosed)
          ~> \/ ends[Peer(e)].closed.tag = "LocallyClosed"
             \/ /\ ends[Peer(e)].closed.tag = "ApplicationClosed"
                /\ error_from_http3(ends[Peer(e)].closed.code) = Some(ClosedWith(e).code)
                /\ ends[Peer(e)].closed.reason = ClosedWith(e).reason

\* The peer of an H3 session reports the close of the other end, which used
\* a code that the mapping moves past a reserved value.
C10_Witness ==
    \E e \in Ends :
       /\ EndH3(e)
       /\ IsSome(ends[e].closeArg)
       /\ ClosedWith(e).code = U32(0, 30)
       /\ ends[Peer(e)].closed.tag = "ApplicationClosed"
       /\ error_from_http3(ends[Peer(e)].closed.code) = Some(U32(0, 30))


EndRaw(e) == IsSome(ends[e].session) /\ ~IsSome(Unwrap(ends[e].session).h3)

\* Every close frame a raw session has sent carries the code its close
\* was called with.
C11_FrameCode ==
    \A e \in Ends : \A f \in closeFrames :
       (EndRaw(e) /\ f.to = Peer(e) /\ IsSome(ends[e].closeArg)) =>
          f.code = ClosedWith(e).code

\* C11: when an end of a raw session calls close(code, reason) the
\* connection is closed with that very code, and the peer's closed(),
\* unless the peer closed the connection itself, comes to report
\* ApplicationClosed with the same code.
C11_RawCloseSameCode ==
    /\ [] C11_FrameCode
    /\ \A e \in Ends :
          (EndRaw(e) /\ IsSome(ends[e].closeArg) /\ ends[Peer(e)].closed = NotClosed)
             ~> \/ ends[Peer(e)].closed.tag = "LocallyClosed"
                \/ /\ ends[Peer(e)].closed.tag = "ApplicationClosed"
                   /\ ends[Peer(e)].closed.code = ClosedWith(e).code

\* The peer of a raw session reports the code 23 the other end closed with.
C11_Witness ==
    \E e \in Ends :
       /\ EndRaw(e)
       /\ IsSome(ends[e].closeArg)
       /\ ClosedWith(e).code = U32(0, 23)
       /\ ends[Peer(e)].closed.tag = "ApplicationClosed"
       /\ ends[Peer(e)].closed.code = U32(0, 23)


(***************************************************************************)
(* Claims about the handshake of Session::connect_h3.                      *)
(***************************************************************************)
\* What the handshake call of end e returned is an error.
Failed(e) == ends[e].result.tag \notin {"Idle", "Ok"}

\* A CONNECT request is on the wire only when both halves of the client's
\* SETTINGS exchange are done.
C14_ConnectAfterSettings ==
    ConnectStreams # {} =>
       /\ ends["client"].settings = "ok"
       /\ ends["client"].sOpen = "done" /\ ends["client"].sAccept = "done"
       /\ ends["client"].frame = Some(1)
       /\ IsSome(ends["server"].frame) /\ Unwrap(ends["server"].frame) # 0

\* The client's session and its drain task exist together, and only after
\* a SETTINGS exchange and a CONNECT exchange that succeeded.
C14_SessionAfterBoth ==
    LibH3("client") =>
       /\ IsSome(ends["client"].session) <=> ends["client"].drain # "none"
       /\ IsSome(ends["client"].session) <=> ends["client"].result = Ok("Session")
       /\ IsSome(ends["client"].session) =>
             /\ ends["client"].settings = "ok"
             /\ ends["client"].connect = "ok"
             /\ Connected_open_check(biStreams[ends["client"].stream].protocols,
                                     biStreams[ends["client"].stream].response).tag = "Ok"

\* A failed exchange is what connect_h3 returns, with no session and no
\* drain task.
C14_FailureReturned ==
    LibH3("client") =>
       /\ ends["client"].settings \in SettingsErrors =>
             /\ ends["client"].result = Err(ends["client"].settings)
             /\ ends["client"].connect = "none"
       /\ ends["client"].connect = "failed" => Failed("client")
       /\ Failed("client") =>
             ~IsSome(ends["client"].session) /\ ends["client"].drain = "none"

\* A step that writes a CONNECT request starts from a completed SETTINGS
\* exchange, and a returned error is final.
C14_Step ==
    /\ (\E k \in DOMAIN biStreams' :
           k \notin DOMAIN biStreams /\ biStreams'[k].content = "connect")
          => ends["client"].settings = "ok"
    /\ Failed("client") => ends'["client"].result = ends["client"].result

\* C14: in connect_h3 the CONNECT request is written only after the
\* SETTINGS exchange has completed in both directions; the session and its
\* drain task exist only after both exchanges have succeeded; when either
\* fails, connect_h3 returns the error and there is no session and no
\* drain task, then or later.
C14_ConnectH3Order ==
    /\ [] C14_ConnectAfterSettings
    /\ [] C14_SessionAfterBoth
    /\ [] C14_FailureReturned
    /\ [][C14_Step]_vars

\* The SETTINGS exchange succeeded, the CONNECT request went out and was
\* answered with another status than 200: connect_h3 has returned the
\* error, and there is no session and no drain task.
C14_Witness ==
    /\ LibH3("client")
    /\ ends["client"].settings = "ok"
    /\ ConnectStreams # {}
    /\ ends["client"].result = [tag |-> "ErrorStatus", arg |-> "404"]
    /\ ~IsSome(ends["client"].session)
    /\ ends["client"].drain = "none"

\* Something other than the handshake itself has ended it: the connection
\* was closed at an end, the server did not answer the CONNECT request with
\* a 200 it could write, the stream the server read was not the CONNECT
\* request, or the server application took the CONNECT stream for itself.
C15_Ended ==
    \/ \E e \in Ends : ends[e].closed # NotClosed
    \/ ends["server"].connect \in {"rejected", "failed"}
    \/ \E k \in ConnectStreams : biStreams[k].accepted /\ ends["server"].stream # k

C15_BothSessions == EndH3("client") /\ EndH3("server")

\* C15: on an H3 connection whose two ends run the handshake (the client
\* connect_h3; the server the SETTINGS exchange, Connecting::accept, a 200
\* response and Session::new_h3), both ends come to hold a session, unless
\* the connection is closed or the server does not accept and answer the
\* CONNECT request with 200: the two SETTINGS exchanges and the CONNECT
\* exchange do not wait for each other for ever.
C15_NoDeadlock ==
    (LibH3("client") /\ LibH3("server")) ~> (C15_BothSessions \/ C15_Ended)

\* Both ends hold a session on a connection that is still open, after a
\* SETTINGS exchange that completed at both.
C15_Witness ==
    /\ C15_BothSessions
    /\ \A e \in Ends : ends[e].closed = NotClosed /\ ends[e].settings = "ok"

\* The SETTINGS frame the peer of e has written disables WebTransport.
PeerUnsupported(e) == ends[Peer(e)].frame = Some(0)

\* With such a frame from the peer, Settings::connect at e never returns a
\* handle and e never holds a session; once the frame is read the call has
\* failed with WebTransportUnsupported, and so has the client's connect_h3.
\* (The inbound half fails otherwise only on a connection that was closed
\* before the frame was read.)
C16_NeverOk ==
    \A e \in Ends : (LibH3(e) /\ PeerUnsupported(e)) =>
       /\ ends[e].settings # "ok"
       /\ ends[e].sAccept \in {"pending", "cancelled", "WebTransportUnsupported",
                               "ConnectionError"}
       /\ ends[e].sAccept = "ConnectionError" => ends[e].closed # NotClosed
       /\ ends[e].sAccept = "WebTransportUnsupported" =>
             /\ ends[e].settings = "WebTransportUnsupported"
             /\ e = "client" => ends[e].result = Err("WebTransportUnsupported")
       /\ ~IsSome(ends[e].session)
       /\ ends[e].drain = "none"
       /\ e = "client" => ConnectStreams = {}

\* The step in which the inbound half reads such a frame fails the call,
\* whatever the outbound half has come to; the failure is final.
C16_ReadFails ==
    \A e \in Ends : (LibH3(e) /\ PeerUnsupported(e)) =>
       /\ (/\ ends[e].sAccept = "pending"
           /\ ends'[e].sAccept \notin {"pending", "cancelled"}
           /\ ends[e].closed = NotClosed)
             => /\ ends'[e].settings = "WebTransportUnsupported"
                /\ ends'[e].sOpen \in {"done", "cancelled"}
       /\ ends[e].settings = "WebTransportUnsupported"
             => ends'[e].settings = "WebTransportUnsupported"

\* C16: when the SETTINGS frame read from the peer has supports_webtransport
\* equal to 0, Settings::connect fails with WebTransportUnsupported, also
\* when its own SETTINGS frame has been written; no handle is returned and
\* connect_h3 returns the error without a session.
C16_Unsupported == [] C16_NeverOk /\ [][C16_ReadFails]_vars

\* The client has written its SETTINGS frame, has read one without
\* WebTransport from the server, and its connect_h3 has failed.
C16_Witness ==
    /\ LibH3("client")
    /\ PeerUnsupported("client")
    /\ ends["client"].sOpen = "done"
    /\ ends["client"].frame = Some(1)
    /\ ends["client"].settings = "WebTransportUnsupported"
    /\ ends["client"].result = Err("WebTransportUnsupported")
    /\ ~IsSome(ends["client"].session)

\* Settings::connect returns a handle exactly when both halves are done,
\* and an error exactly when a half has failed: the error of that half,
\* with the other half finished or dropped, never still pending.
C17_Joined ==
    \A e \in Ends : LibH3(e) =>
       /\ ends[e].settings = "ok" <=> (ends[e].sOpen = "done" /\ ends[e].sAccept = "done")
       /\ ends[e].sOpen \in SettingsErrors =>
             ends[e].settings = ends[e].sOpen /\ ends[e].sAccept \in {"done", "cancelled"}
       /\ ends[e].sAccept \in SettingsErrors =>
             ends[e].settings = ends[e].sAccept /\ ends[e].sOpen \in {"done", "cancelled"}
       /\ ends[e].settings \in SettingsErrors =>
             (ends[e].sOpen = ends[e].settings \/ ends[e].sAccept = ends[e].settings)
       /\ ends[e].settings = "none" =>
             (ends[e].sOpen = "pending" \/ ends[e].sAccept = "pending")

\* The step in which a half fails is the step in which Settings::connect
\* returns; after the return neither half moves any more.
C17_FirstError ==
    \A e \in Ends : LibH3(e) =>
       /\ (ends[e].sOpen = "pending" /\ ends'[e].sOpen \in SettingsErrors) =>
             /\ ends'[e].settings = ends'[e].sOpen
             /\ ends'[e].sAccept = IF ends[e].sAccept = "pending" THEN "cancelled"
                                    ELSE ends[e].sAccept
       /\ (ends[e].sAccept = "pending" /\ ends'[e].sAccept \in SettingsErrors) =>
             /\ ends'[e].settings = ends'[e].sAccept
             /\ ends'[e].sOpen = IF ends[e].sOpen = "pending" THEN "cancelled"
                                  ELSE ends[e].sOpen
       /\ ends[e].settings # "none" =>
             /\ ends'[e].settings = ends[e].settings
             /\ ends'[e].sOpen = ends[e].sOpen
             /\ ends'[e].sAccept = ends[e].sAccept
             /\ ends'[e].frame = ends[e].frame

\* C17: Settings::connect runs its outbound and its inbound half side by
\* side and returns a handle only when both are done; in the step in which
\* one half fails the call returns that error and the other half, if still
\* pending, is cancelled and does nothing any more.
C17_TryJoin == [] C17_Joined /\ [][C17_FirstError]_vars

\* The inbound half failed while the outbound half was pending: the call
\* has returned and the SETTINGS frame of this end is never written.
C17_Witness ==
    \E e \in Ends :
       /\ LibH3(e)
       /\ ends[e].sAccept = "WebTransportUnsupported"
       /\ ends[e].sOpen = "cancelled"
       /\ ends[e].settings = "WebTransportUnsupported"
       /\ ends[e].frame = None
       /\ ends[e].closed = NotClosed

\* The CONNECT stream of the client's exchange, what it offered and what
\* was answered on it.
ClientStream == biStreams[ends["client"].stream]
Answered == ends["client"].stream # 0 /\ ClientStream.response.status \in Statuses

\* After an answer with another status than 200 the client holds no
\* session; its call, once returned, has failed with ErrorStatus of that
\* status (or, on a connection closed before the answer was read, with the
\* error of the read).
C18_NoSession ==
    (LibH3("client") /\ Answered /\ ClientStream.response.status # "200") =>
       /\ ~IsSome(ends["client"].session)
       /\ ends["client"].connect \in {"sent", "failed"}
       /\ ends["client"].connect = "failed" =>
             \/ ends["client"].result =
                   [tag |-> "ErrorStatus", arg |-> ClientStream.response.status]
             \/ /\ ends["client"].result = Err("ProtoError")
                /\ ends["client"].closed # NotClosed

\* The step in which the client reads such an answer returns ErrorStatus
\* of its status, whatever subprotocol it carries.
C18_ReadStep ==
    (/\ LibH3("client") /\ Answered /\ ClientStream.response.status # "200"
     /\ ends["client"].connect = "sent" /\ ends'["client"].connect # "sent"
     /\ ends["client"].closed = NotClosed)
       => /\ ends'["client"].result =
                [tag |-> "ErrorStatus", arg |-> ClientStream.response.status]
          /\ ~IsSome(ends'["client"].session)

\* C18: Connected::open fails with ErrorStatus(status) when the response
\* read has a status other than 200, whatever subprotocol the response
\* selects, and the client then holds no session.
C18_ErrorStatus == [] C18_NoSession /\ [][C18_ReadStep]_vars

\* A 404 that selects a subprotocol the request did not offer was read:
\* the call failed with ErrorStatus(404).
C18_Witness ==
    /\ LibH3("client")
    /\ Answered
    /\ ClientStream.protocols = {"a", "b"}
    /\ ClientStream.response = [status |-> "404", protocol |-> Some("c")]
    /\ ends["client"].result = [tag |-> "ErrorStatus", arg |-> "404"]
    /\ ~IsSome(ends["client"].session)

\* A 200 answer that selects a subprotocol.
Selects200 ==
    /\ Answered
    /\ ClientStream.response.status = "200"
    /\ IsSome(ClientStream.response.protocol)

\* After a 200 that selects a subprotocol the request did not offer, the
\* client holds no session and its call, once returned, has failed with
\* ProtocolMismatch of that name (or, on a connection closed before the
\* answer was read, with the error of the read); a client that holds a
\* session after a 200 with a subprotocol offered that subprotocol.
C19_Member ==
    (LibH3("client") /\ Selects200) =>
       /\ IsSome(ends["client"].session) =>
             Unwrap(ClientStream.response.protocol) \in ClientStream.protocols
       /\ Unwrap(ClientStream.response.protocol) \notin ClientStream.protocols =>
             /\ ends["client"].connect \in {"sent", "failed"}
             /\ ends["client"].connect = "failed" =>
                   \/ ends["client"].result =
                         [tag |-> "ProtocolMismatch",
                          arg |-> Unwrap(ClientStream.response.protocol)]
                   \/ /\ ends["client"].result = Err("ProtoError")
                      /\ ends["client"].closed # NotClosed

\* The step in which the client reads such a 200: ProtocolMismatch of the
\* name when it was not offered, a session when it was.
C19_ReadStep ==
    (/\ LibH3("client") /\ Selects200
     /\ ends["client"].connect = "sent" /\ ends'["client"].connect # "sent"
     /\ ends["client"].closed = NotClosed)
       => IF Unwrap(ClientStream.response.protocol) \in ClientStream.protocols
          THEN /\ IsSome(ends'["client"].session)
               /\ ends'["client"].result = Ok("Session")
          ELSE /\ ~IsSome(ends'["client"].session)
               /\ ends'["client"].result =
                     [tag |-> "ProtocolMismatch",
                      arg |-> Unwrap(ClientStream.response.protocol)]

\* C19: Connected::open fails with ProtocolMismatch(name) when the 200
\* response read selects a subprotocol that is not in the list the request
\* offered, and succeeds with a selected subprotocol only when the name is
\* in that list.
C19_ProtocolMismatch == [] C19_Member /\ [][C19_ReadStep]_vars

\* The request offered a and b, the 200 read selects c: the call failed
\* with ProtocolMismatch(c).
C19_Witness ==
    /\ LibH3("client")
    /\ Selects200
    /\ ClientStream.protocols = {"a", "b"}
    /\ ClientStream.response.protocol = Some("c")
    /\ ends["client"].result = [tag |-> "ProtocolMismatch", arg |-> "c"]
    /\ ~IsSome(ends["client"].session)

\* The server's respond was called with a subprotocol the request did not
\* offer.
ServerMismatch == LibH3("server") /\ ends["server"].result.tag = "ProtocolMismatch"

\* Both ends fail with ProtocolMismatch of the same name: the client's
\* exchange, once it has ended after such a respond, has the server's
\* error.
C20_Original ==
    (ServerMismatch /\ ends["client"].connect \notin {"none", "sent"}) =>
       ends["client"].result = ends["server"].result

\* Such a respond fails with ProtocolMismatch of the name and writes
\* nothing: the CONNECT stream ends without a response, no end holds a
\* session, and the client's exchange, once ended, has failed with the
\* error of reading the response.
C20_ServerRefuses ==
    ServerMismatch =>
       /\ ends["server"].result.arg \notin biStreams[ends["server"].stream].protocols
       /\ biStreams[ends["server"].stream].response = StreamEnded
       /\ ends["server"].connect = "failed"
       /\ ends["server"].stream = ends["client"].stream
       /\ \A e \in Ends : ~IsSome(ends[e].session)
       /\ ends["client"].connect \in {"sent", "failed"}
       /\ ends["client"].connect = "failed" => ends["client"].result = Err("ProtoError")

\* A server that runs this library writes no response selecting a
\* subprotocol that was not offered, so its client never fails with
\* ProtocolMismatch.
C20_NeverWritten ==
    LibH3("server") =>
       /\ \A k \in DOMAIN biStreams :
             IsSome(biStreams[k].response.protocol) =>
                Unwrap(biStreams[k].response.protocol) \in biStreams[k].protocols
       /\ ends["client"].result.tag # "ProtocolMismatch"

\* C20 (as the code has it): when the server responds with a subprotocol
\* that is not in the list the client offered, the server's respond call
\* fails with ProtocolMismatch(protocol) before anything is written; the
\* client's CONNECT exchange fails as well, with the error of reading a
\* response from a stream that ended, and not with ProtocolMismatch.
C20_OnlyServerMismatch == [] C20_ServerRefuses /\ [] C20_NeverWritten

\* The client offered a and b, the server's respond selected c and failed
\* with ProtocolMismatch(c); the client's exchange has failed with the
\* error of the read, on a connection still open.
C20_Witness ==
    /\ ServerMismatch
    /\ ends["server"].result = [tag |-> "ProtocolMismatch", arg |-> "c"]
    /\ biStreams[ends["server"].stream].protocols = {"a", "b"}
    /\ ends["client"].result = Err("ProtoError")
    /\ \A e \in Ends : ends[e].closed = NotClosed

\* C21: a client whose CONNECT exchange has succeeded on a 200 response
\* that selects no subprotocol had offered no subprotocols in its request.
C21_NoneOnlyIfNoneOffered ==
    (/\ LibH3("client") /\ Answered
     /\ ends["client"].connect = "ok"
     /\ ClientStream.response = [status |-> "200", protocol |-> None])
       => ClientStream.protocols = {}

(***************************************************************************)
(* Claims about the drain task of an H3 session.                           *)
(***************************************************************************)
\* The events that end the drain, and the first of them the peer has
\* written on the CONNECT stream of e.
Terminating(capsule) == capsule.kind \in {"Close", "End", "Bad"}
Terminators(e) == { i \in DOMAIN ends[e].capsules : Terminating(ends[e].capsules[i]) }
FirstTerminator(e) == ends[e].capsules[Min(Terminators(e))]

\* The peer has sent CloseWebTransportSession or ended the stream, with
\* nothing but capsules to skip before it.
PeerTerminated(e) ==
    /\ Terminators(e) # {}
    /\ FirstTerminator(e).kind \in {"Close", "End"}

\* The (code, reason) that belongs to a terminating event.
ResultOf(capsule) ==
    IF capsule.kind = "Close" THEN [code |-> capsule.code, reason |-> capsule.reason]
    ELSE IF capsule.kind = "End" THEN [code |-> U32(0, 0), reason |-> "stream closed"]
    ELSE [code |-> U32(0, 1), reason |-> "capsule error"]

\* The step in which the drain task ends on an open connection closes it:
\* closed() is LocallyClosed and the peer is sent the close frame with the
\* translated code and the reason of the drain's result.
C22_DrainCloses ==
    \A e \in Ends :
       (EndH3(e) /\ ends[e].drain = "running" /\ ends'[e].drain = "done"
          /\ ends[e].closed = NotClosed)
       => /\ ends'[e].closed = [tag |-> "LocallyClosed"]
          /\ IsSome(ends'[e].drainRet)
          /\ PeerTerminated(e) => ends'[e].drainRet = Some(ResultOf(FirstTerminator(e)))
          /\ closeFrames' = closeFrames \cup
                { [to |-> Peer(e),
                   code |-> error_to_http3(Unwrap(ends'[e].drainRet).code),
                   reason |-> Unwrap(ends'[e].drainRet).reason] }
          /\ closeFrames' # closeFrames

\* C22: on an H3 session, once the peer has sent CloseWebTransportSession
\* on the CONNECT stream or has ended it, the drain task ends and the
\* connection is closed; when the drain task is what closes it, it closes
\* with the QUIC code error_to_http3(code) and the reason of its result.
C22_DrainClosesSession ==
    /\ \A e \in Ends :
          (EndH3(e) /\ PeerTerminated(e))
             ~> (ends[e].drain = "done" /\ ends[e].closed # NotClosed)
    /\ [][C22_DrainCloses]_vars

\* The peer ended the CONNECT stream; the drain task closed the
\* connection, and the peer sees the close with the translated code 0 and
\* the reason "stream closed".
C22_Witness ==
    /\ EndH3("client")
    /\ PeerTerminated("client")
    /\ FirstTerminator("client").kind = "End"
    /\ ends["client"].closeArg = None
    /\ ends["client"].closed = [tag |-> "LocallyClosed"]
    /\ ends["client"].drainRet = Some([code |-> U32(0, 0), reason |-> "stream closed"])
    /\ ends["server"].closed =
          [tag |-> "ApplicationClosed", code |-> ERROR_FIRST, reason |-> "stream closed"]

\* A running drain task has read only capsules it skips; a finished one
\* returned the result of the first terminating event of the stream, which
\* is the last thing it read, or failed its read on a closed connection.
C23_FirstEvent ==
    \A e \in Ends : EndH3(e) =>
       /\ ends[e].drain = "running" =>
             /\ ends[e].drainRet = None
             /\ \A i \in 1..ends[e].read :
                   ends[e].capsules[i].kind \in {"Grease", "Unknown"}
       /\ ends[e].drain = "done" =>
             \/ /\ Terminators(e) # {}
                /\ ends[e].read = Min(Terminators(e))
                /\ ends[e].drainRet = Some(ResultOf(FirstTerminator(e)))
             \/ /\ ends[e].closed # NotClosed
                /\ \A i \in 1..ends[e].read : ~Terminating(ends[e].capsules[i])
                /\ ends[e].drainRet = Some([code |-> U32(0, 1), reason |-> "capsule error"])

\* Reading a Grease or unknown capsule changes nothing but the position.
C23_Skip ==
    \A e \in Ends :
       (/\ EndH3(e) /\ ends[e].drain = "running"
        /\ ends'[e].read = ends[e].read + 1
        /\ ends[e].capsules[ends[e].read + 1].kind \in {"Grease", "Unknown"})
       => /\ ends'[e] = [ends[e] EXCEPT !.read = ends[e].read + 1]
          /\ closeFrames' = closeFrames

\* C23: the result of the drain is that of the first terminating event on
\* the CONNECT stream: (code, reason) of a CloseWebTransportSession
\* capsule, (0, "stream closed") at the end of the stream, (1, "capsule
\* error") when the read fails; Grease and unknown capsules before it are
\* skipped and change nothing.
C23_DrainResult == [] C23_FirstEvent /\ [][C23_Skip]_vars

\* After a Grease and an unknown capsule the drain read
\* CloseWebTransportSession(30, "bye") and returned (30, "bye").
C23_Witness ==
    /\ EndH3("client")
    /\ Len(ends["client"].capsules) = 3
    /\ ends["client"].capsules[1].kind = "Grease"
    /\ ends["client"].capsules[2].kind = "Unknown"
    /\ ends["client"].capsules[3] = Capsule("Close", U32(0, 30), "bye")
    /\ ends["client"].drain = "done"
    /\ ends["client"].drainRet = Some([code |-> U32(0, 30), reason |-> "bye"])

(***************************************************************************)
(* A raw session with all of its operations: accepting and opening         *)
(* streams of both directions and datagrams, side by side.                 *)
(***************************************************************************)
\* Streams, calls and datagrams of one run of a raw session, all together.
MaxRawOps == 3

RawLoad ==
    Len(incoming) + Len(calls) + Len(dgQueue)
       + (IF dgRead = NoResult THEN 0 ELSE 1) + (IF dgSent = NoResult THEN 0 ELSE 1)

RawRoom == RawLoad < MaxRawOps

RawPeerOpen(dir) == RawRoom /\ PeerOpen(dir)
RawOpenCall(kind) == RawRoom /\ OpenCall(kind)
RawPeerDatagram == RawRoom /\ PeerDatagram
RawSendDatagram == (RawRoom \/ dgSent # NoResult) /\ SendDatagram

InitRaw ==
    /\ sess = Session_raw
    /\ connClosed = FALSE
    /\ InitAcceptVars
    /\ IdleOpenVars
    /\ IdleConnVars
    /\ dgQueue = << >>
    /\ dgRead = NoResult
    /\ dgSent = NoResult
    /\ mtu = Some(MaxMtu)
    /\ mdsRet = NoResult
    /\ IdleCodeVars

NextRaw ==
    \/ RawPeerOpen("uni")
    \/ RawPeerOpen("bi")
    \/ PeerDeliver
    \/ AcceptUniPoll
    \/ AcceptBiPoll
    \/ RawOpenCall("uni")
    \/ RawOpenCall("bi")
    \/ ConnOpen
    \/ AppWrite
    \/ RawPeerDatagram
    \/ ReadDatagram
    \/ RawSendDatagram
    \/ ConnClose

SpecRaw == InitRaw /\ [][NextRaw]_vars

(***************************************************************************)
(* Claims about raw sessions.                                              *)
(***************************************************************************)
\* No stream is dropped or held back, nothing is kept for QPACK, every byte
\* on a stream we opened was written by the application, and datagrams
\* pass as they are.
C12_NoFraming ==
    /\ Session_url(sess) = None
    /\ \A i \in DOMAIN incoming : incoming[i].loc \in {"queued", "surfaced"}
    /\ qpack_encoder = None /\ qpack_decoder = None
    /\ \A i \in DOMAIN calls :
          /\ calls[i].res = "Ok" => calls[i].stream
          /\ \A k \in DOMAIN calls[i].wire :
                \E j \in DOMAIN AppData : calls[i].wire[k] = AppData[j]
    /\ HasRead => dgRead.ret = Ok(dgRead.payload)
    /\ dgSent # NoResult => dgSent.submitted = dgSent.data

\* A call of accept_uni / accept_bi with a stream waiting returns the oldest
\* one, whatever has arrived on it, and leaves its bytes alone.
C12_AcceptAny(dir, ret) ==
    Queued(incoming, dir) # {} =>
       /\ ret = RetOk(Min(Queued(incoming, dir)))
       /\ incoming'[ret.stream].bytes = incoming[ret.stream].bytes
       /\ incoming'[ret.stream].loc = "surfaced"

C12_AcceptStep ==
    /\ AcceptUniPoll => C12_AcceptAny("uni", uniRet')
    /\ AcceptBiPoll => C12_AcceptAny("bi", biRet')

\* The bytes on a stream Connection::open_uni / open_bi returned are the
\* same when the call returns it: nothing is written in between.
C12_OpenStep ==
    ConnOpen => \A i \in DOMAIN calls :
                   (calls[i].pc = "open" /\ calls'[i].pc = "done") =>
                      calls'[i].wire = << >>

MaxCodeLow == 70

CodeLow == (0 .. MaxCodeLow) \cup {65534, 65535}
CodeHigh == {0, 1, 65535}

\* The codes an application stops or resets a stream with.
Codes == { U32(hi, lo) : hi \in CodeHigh, lo \in CodeLow }

\* The wire codes of RESET_STREAM frames: those of the codes above and two
\* outside the WebTransport range.
ResetWires == { error_to_http3(c) : c \in Codes } \cup { U32(0, 0), AddU(ERROR_LAST, U32(0, 1)) }

\* impl From<endpoint::WriteError> for WriteError, the Stopped arm.
WriteError_from_Stopped(wire) ==
    With(error_from_http3(wire), LAMBDA c :
       IF IsSome(c) THEN [tag |-> "Stopped", code |-> Unwrap(c)]
       ELSE [tag |-> "InvalidStopped", code |-> wire])

\* impl From<endpoint::ReadError> for ReadError, the Reset arm.
ReadError_from_Reset(wire) ==
    With(error_from_http3(wire), LAMBDA c :
       IF IsSome(c) THEN [tag |-> "Reset", code |-> Unwrap(c)]
       ELSE [tag |-> "InvalidReset", code |-> wire])

\* RecvStream::stop(code): STOP_SENDING goes out with the translated code.
RecvStream_stop ==
    /\ xfer.op = "none"
    /\ \E code \in Codes :
          xfer' = [op |-> "stop", code |-> code,
                   wire |-> Unwrap(VarIntFromU64(error_to_http3(code))),
                   seen |-> NoResult]
    /\ UNCHANGED << sess, connClosed, acceptVars, openVars, dgramVars, connVars, srv >>

\* The peer's write on the stopped stream fails with Stopped(wire) and is
\* converted.
PeerWriteStopped ==
    /\ xfer.op = "stop"
    /\ xfer.seen = NoResult
    /\ xfer' = [xfer EXCEPT !.seen = WriteError_from_Stopped(xfer.wire)]
    /\ UNCHANGED << sess, connClosed, acceptVars, openVars, dgramVars, connVars, srv >>

\* A read fails with Reset(wire) and is converted.
ReadReset ==
    /\ xfer.op = "none"
    /\ \E wire \in ResetWires :
          xfer' = [op |-> "reset", wire |-> wire, seen |-> ReadError_from_Reset(wire)]
    /\ UNCHANGED << sess, connClosed, acceptVars, openVars, dgramVars, connVars, srv >>

\* The errors of a connection a stream operation can fail with.
ConnectionErrors == { "TimedOut", "LocallyClosed", "ApplicationClosed" }

\* impl From<ConnectionError> for SessionError.
SessionError_from(e) == [tag |-> "SessionError", err |-> e]

\* The endpoint's write and read errors (0-RTT is not used, so
\* ZeroRttRejected does not occur).
EndpointWriteErrors ==
    { [tag |-> "Stopped", code |-> wire] : wire \in ResetWires }
       \cup { [tag |-> "ClosedStream"] }
       \cup { [tag |-> "ConnectionLost", err |-> e] : e \in ConnectionErrors }
EndpointReadErrors ==
    { [tag |-> "Reset", code |-> wire] : wire \in ResetWires }
       \cup { [tag |-> "ClosedStream"] }
       \cup { [tag |-> "ConnectionLost", err |-> e] : e \in ConnectionErrors }

\* A conversion that reports every stop code as an application code.
WriteError_from_lossy(e) ==
    IF e.tag = "Stopped"
    THEN With(error_from_http3(e.code), LAMBDA c :
            [tag |-> "Stopped", code |-> IF IsSome(c) THEN Unwrap(c) ELSE U32(0, 0)])
    ELSE IF e.tag = "ClosedStream" THEN [tag |-> "ClosedStream"]
    ELSE SessionError_from(e.err)
\* impl From<endpoint::WriteError> for WriteError.
WriteError_from(e) ==
    IF e.tag = "Stopped" THEN WriteError_from_Stopped(e.code)
    ELSE IF e.tag = "ClosedStream" THEN [tag |-> "ClosedStream"]
    ELSE SessionError_from(e.err)

\* impl From<endpoint::ReadError> for ReadError.
ReadError_from(e) ==
    IF e.tag = "Reset" THEN ReadError_from_Reset(e.code)
    ELSE IF e.tag = "ClosedStream" THEN [tag |-> "ClosedStream"]
    ELSE SessionError_from(e.err)

\* A write on a stream fails and the error is converted.
WriteFails ==
    /\ xfer.op = "none"
    /\ \E e \in EndpointWriteErrors :
          xfer' = [op |-> "write", err |-> e, seen |-> WriteError_from(e)]
    /\ UNCHANGED << sess, connClosed, acceptVars, openVars, dgramVars, connVars, srv >>

\* A read on a stream fails and the error is converted.
ReadFails ==
    /\ xfer.op = "none"
    /\ \E e \in EndpointReadErrors :
          xfer' = [op |-> "read", err |-> e, seen |-> ReadError_from(e)]
    /\ UNCHANGED << sess, connClosed, acceptVars, openVars, dgramVars, connVars, srv >>

\* What the endpoint's received_reset resolves with.
EndpointResets ==
    { Ok(None) } \cup { Ok(Some(wire)) : wire \in ResetWires }
       \cup { [tag |-> "ConnectionLost", err |-> e] : e \in ConnectionErrors }

\* RecvStream::received_reset on what the endpoint's call resolved with:
\* error_from_http3(code).unwrap() panics on None.
RecvStream_received_reset(r) ==
    IF r.tag = "Ok"
    THEN IF r.value = None THEN Ok(None)
         ELSE With(error_from_http3(Unwrap(r.value)), LAMBDA c :
                 IF IsSome(c) THEN Ok(Some(Unwrap(c))) ELSE [tag |-> "panic"])
    ELSE [tag |-> "Err", err |-> SessionError_from(r.err)]

\* The application awaits received_reset on a stream.
ReceivedReset ==
    /\ xfer.op = "none"
    /\ \E r \in EndpointResets :
          xfer' = [op |-> "received_reset", res |-> r,
                   seen |-> RecvStream_received_reset(r)]
    /\ UNCHANGED << sess, connClosed, acceptVars, openVars, dgramVars, connVars, srv >>

InitCodes ==
    /\ sess = Session_new_h3(0)
    /\ connClosed = FALSE
    /\ InitAcceptVars
    /\ IdleOpenVars
    /\ IdleDgramVars
    /\ IdleConnVars
    /\ IdleCodeVars

NextCodes ==
    \/ RecvStream_stop
    \/ PeerWriteStopped
    \/ ReadReset
    \/ WriteFails
    \/ ReadFails
    \/ ReceivedReset

SpecCodes == InitCodes /\ [][NextCodes]_vars

(***************************************************************************)
(* Claims about the error-code translation.                                *)
(***************************************************************************)
\* C13: error_from_http3(error_to_http3(c)) = Some(c) for the application
\* codes c: the code given to stop is what the peer's failed write reports
\* as Stopped, and a RESET_STREAM that carries error_to_http3(c) is
\* reported as Reset(c).
C13_RoundTrip ==
    /\ xfer.op = "stop" =>
          /\ error_from_http3(error_to_http3(xfer.code)) = Some(xfer.code)
          /\ xfer.seen # NoResult => xfer.seen = [tag |-> "Stopped", code |-> xfer.code]
    /\ xfer.op = "reset" =>
          \A c \in Codes :
             xfer.wire = error_to_http3(c) => xfer.seen = [tag |-> "Reset", code |-> c]

\* The largest code, 0xffffffff, has crossed the stream and come out as it
\* went in.
C13_Witness ==
    /\ xfer.op = "stop"
    /\ xfer.code = U32(65535, 65535)
    /\ xfer.wire = ERROR_LAST
    /\ xfer.seen = [tag |-> "Stopped", code |-> U32(65535, 65535)]

\* The streams of a direction whose header decode is in pending_uni or
\* pending_bi.
PendingDecodes(dir) ==
    { i \in DOMAIN incoming : incoming[i].dir = dir /\ incoming[i].loc = "pending" }

\* C28: once the connection is closed, the poll of accept_uni or accept_bi
\* that returns the connection error has dropped the header decodes that
\* were pending: none is left in the collection of that direction.
C28_PendingDropped ==
    \A dir \in {"uni", "bi"} :
       AcceptRet(dir) = RetErr("ConnectionError") => PendingDecodes(dir) = {}

\* The part of C28 the code does: a poll of an H3 session's accept call on
\* a closed connection returns the connection error, whatever is pending.
C28_ErrorReturned ==
    [][\A dir \in {"uni", "bi"} :
          IsSome(sess.h3) /\ connClosed /\ AcceptRet(dir)' # AcceptRet(dir) =>
             AcceptRet(dir)' = RetErr("ConnectionError")]_vars

\* A wire code outside the range error_to_http3 maps onto.
OutOfRange(wire) == LtU(wire, ERROR_FIRST) \/ LtU(ERROR_LAST, wire)

\* What a converted Stopped or Reset carries: the application code when
\* error_from_http3 gives one (and it does so exactly for the wire codes of
\* the range), the wire code as it came otherwise.
C26_Code(valid, invalid) ==
    /\ IsSome(error_from_http3(xfer.err.code)) =>
          xfer.seen = [tag |-> valid, code |-> Unwrap(error_from_http3(xfer.err.code))]
    /\ error_from_http3(xfer.err.code) = None =>
          xfer.seen = [tag |-> invalid, code |-> xfer.err.code]
    /\ OutOfRange(xfer.err.code) <=> xfer.seen.tag = invalid
    /\ \A c \in Codes :
          xfer.err.code = error_to_http3(c) => xfer.seen = [tag |-> valid, code |-> c]

\* C26: the conversion of a write error turns Stopped(v) into Stopped(c)
\* when error_from_http3(v) is Some(c) and into InvalidStopped(v), with the
\* wire code, otherwise; that of a read error turns Reset(v) into Reset(c)
\* or InvalidReset(v) likewise; ConnectionLost becomes SessionError and
\* ClosedStream stays ClosedStream.
C26_Conversions ==
    xfer.op \in {"write", "read"} =>
       /\ xfer.err.tag = "Stopped" => C26_Code("Stopped", "InvalidStopped")
       /\ xfer.err.tag = "Reset" => C26_Code("Reset", "InvalidReset")
       /\ xfer.err.tag = "ConnectionLost" =>
             xfer.seen = [tag |-> "SessionError", err |-> xfer.err.err]
       /\ xfer.err.tag = "ClosedStream" => xfer.seen = [tag |-> "ClosedStream"]

\* A write failed with Stopped of a wire code just above the range and was
\* converted to InvalidStopped of that wire code.
C26_Witness ==
    /\ xfer.op = "write"
    /\ xfer.err = [tag |-> "Stopped", code |-> AddU(ERROR_LAST, U32(0, 1))]
    /\ xfer.seen = [tag |-> "InvalidStopped", code |-> AddU(ERROR_LAST, U32(0, 1))]

\* C27: whatever reset code the peer put on the wire, received_reset
\* returns a value (the application code, None, or an error) and does not
\* abort the task.
C27_NeverAborts ==
    xfer.op = "received_reset" => xfer.seen.tag \in {"Ok", "Err"}

\* A stream whose header decode is in the pending collection.
IsPulled(i) == i \in DOMAIN incoming /\ incoming[i].loc = "pending"

\* Dropping a waiting accept call changes no stream and no collection.
C29_CancelStep ==
    \A dir \in {"uni", "bi"} :
       AcceptRet(dir) = Pending /\ AcceptRet(dir)' = Idle =>
          UNCHANGED << incoming, qpack_encoder, qpack_decoder, surfaced >>

\* A pulled stream that qualifies leaves the pending collection only by
\* being returned.
C29_Kept ==
    \A i \in DOMAIN incoming :
       H3 /\ IsPulled(i) /\ Qualifies(incoming[i]) =>
          incoming'[i].loc \in {"pending", "surfaced"}

\* While the application keeps calling accept, dropping calls as it likes,
\* a pulled stream that qualifies is returned by some call, unless the peer
\* resets it or the connection closes first.
C29_Later ==
    \A i \in 1..MaxIn :
       (H3 /\ IsPulled(i) /\ Qualifies(incoming[i]))
          ~> (IsSurfaced(i) \/ connClosed \/ IsReset(i))

\* C29: dropping an accept_uni or accept_bi call while it waits loses no
\* stream: the streams already pulled from QUIC stay in the pending
\* collection, and one that qualifies is returned by a later call.
C29_CancelLosesNothing ==
    /\ [][C29_CancelStep /\ C29_Kept]_vars
    /\ C29_Later

\* A call was dropped while a stream with our header is in the pending
\* collection of its direction, and no call of that direction is running.
C29_Witness ==
    /\ H3
    /\ \E i \in DOMAIN incoming :
          /\ IsPulled(i) /\ Qualifies(incoming[i])
          /\ AcceptRet(incoming[i].dir) = Idle

Other(dir) == IF dir = "uni" THEN "bi" ELSE "uni"

\* A poll of one accept call leaves the other call and the streams of the
\* other direction as they are.
C30_PollStep ==
    \A dir \in {"uni", "bi"} :
       AcceptRet(dir)' # AcceptRet(dir) =>
          /\ AcceptRet(Other(dir))' = AcceptRet(Other(dir))
          /\ \A i \in DOMAIN incoming :
                incoming[i].dir = Other(dir) => incoming'[i] = incoming[i]

\* With the call of the other direction waiting, a stream that qualifies is
\* still returned, unless the peer resets it or the connection closes first.
C30_Surfaces ==
    \A i \in 1..MaxIn :
       (/\ H3 /\ i \in DOMAIN incoming /\ Unread(incoming[i])
        /\ Qualifies(incoming[i])
        /\ AcceptRet(Other(incoming[i].dir)) = Pending)
          ~> (IsSurfaced(i) \/ connClosed \/ IsReset(i))

\* C30: accept_uni and accept_bi called concurrently on an H3 session do not
\* block each other: while accept_bi waits, accept_uni still returns a
\* qualifying unidirectional stream, and the other way round; a poll of one
\* call touches neither the other call nor its streams.
C30_NoBlocking ==
    /\ [][C30_PollStep]_vars
    /\ C30_Surfaces

\* accept_uni has returned a stream while accept_bi waits and the peer has
\* opened no bidirectional stream.
C30_Witness ==
    /\ H3
    /\ uniRet.tag = "Ok"
    /\ biRet = Pending
    /\ \A i \in DOMAIN incoming : incoming[i].dir = "uni"

\* A unidirectional stream not yet handled whose header is incomplete.
Incomplete(i) ==
    /\ i \in DOMAIN incoming
    /\ incoming[i].dir = "uni" /\ Unread(incoming[i])
    /\ decode_uni(incoming[i], OurId).st = "pending"

\* The step in which accept_uni returns stream j.
NewlySurfaced(j) == incoming[j].loc # "surfaced" /\ incoming'[j].loc = "surfaced"

\* The stream a poll returns is one whose header decode is complete, and
\* the streams accepted before it whose header is incomplete are passed
\* over: they stay in the pending collection.
C31_Step ==
    H3 => \A j \in DOMAIN incoming :
       incoming[j].dir = "uni" /\ NewlySurfaced(j) =>
          /\ decode_uni(incoming[j], OurId).st = "ok"
          /\ \A i \in 1..(j - 1) : Incomplete(i) => incoming'[i].loc = "pending"

\* A stream whose header has arrived is returned although a stream accepted
\* before it waits for its header (unless it is reset or the connection
\* closes first).
C31_NotBlocked ==
    \A j \in 1..MaxIn : \A i \in 1..(j - 1) :
       (HeaderArrivedUni(j) /\ ~IsReset(j) /\ Incomplete(i))
          ~> (IsSurfaced(j) \/ connClosed \/ IsReset(j))

\* C31: streams are surfaced in the order their header decodes complete,
\* not in the order they were accepted: a stream accepted later whose
\* header is complete is returned before an earlier one whose header is
\* incomplete, and an incomplete header does not hold back the streams
\* behind it.
C31_CompletionOrder ==
    /\ [][C31_Step]_vars
    /\ C31_NotBlocked

\* Two streams were returned in the reverse of the order they were
\* accepted in.
C31_Witness ==
    /\ H3
    /\ Len(surfaced) = 2
    /\ surfaced[1] > surfaced[2]
    /\ \A k \in 1..2 : incoming[surfaced[k]].dir = "uni"

\* A unidirectional stream the demultiplexer has identified as a QPACK
\* encoder or decoder stream.
Identified(i) ==
    /\ incoming[i].dir = "uni"
    /\ IsQpack(incoming[i])
    /\ ~Unread(incoming[i])

\* C32: every QPACK encoder or decoder stream the demultiplexer has
\* identified stays held by it, neither dropped nor surfaced, also when the
\* peer opens more than one stream of one QPACK type.
C32_QpackHeld ==
    H3 => \A i \in DOMAIN incoming : Identified(i) => incoming[i].loc = "qpack"

\* The part of C32 the code does: the poll that identifies a QPACK stream
\* goes on with the loop; it returns another stream or Pending, and never
\* the QPACK stream.
C32_ContinuesPolling ==
    [][H3 => \A i \in DOMAIN incoming :
          incoming[i].loc # "qpack" /\ incoming'[i].loc = "qpack" =>
             /\ uniRet' \in { Pending } \cup { RetOk(j) : j \in DOMAIN incoming \ {i} }
             /\ ~connClosed']_vars

\* A call write_full_with_max_prio has returned from, or that never entered
\* it, has priority 0; while the header is being written it is i32::MAX.
C33_Priority ==
    \A i \in DOMAIN calls :
       /\ calls[i].res \in {"Ok", "WriteError", "ConnectionError"} => calls[i].prio = 0
       /\ calls[i].pc = "write" => calls[i].prio = PRIO_MAX
       /\ calls[i].prio \in {0, PRIO_MAX}

\* Header bytes go out at the maximum priority, the application's bytes at
\* the default one.
C33_WriteStep ==
    \A i \in DOMAIN calls :
       i \in DOMAIN calls' /\ calls'[i].wire # calls[i].wire =>
          IF calls[i].pc = "write" THEN calls[i].prio = PRIO_MAX
          ELSE calls[i].res = "Ok" /\ calls[i].prio = 0

\* C33: the header write raises the stream's priority to the maximum before
\* it writes the header and sets it back to 0 when the write has succeeded
\* and when it has failed, so every stream open_uni / open_bi returns has
\* priority 0.
C33_PriorityRestored ==
    /\ [] C33_Priority
    /\ [][C33_WriteStep]_vars

\* On an H3 session one call returned a stream with the header on it and
\* priority 0, and the header write of another failed half way and left its
\* stream at priority 0 too.
C33_Witness ==
    /\ H3
    /\ \E i, j \in DOMAIN calls :
          /\ calls[i].res = "Ok" /\ calls[i].prio = 0
          /\ calls[i].wire = ExactHeader(calls[i].kind)
          /\ calls[j].res = "WriteError" /\ calls[j].prio = 0
          /\ calls[j].wire # << >>

\* A drain task that has ended stays ended, and it ends in one step from
\* whatever it had read.
C34_Ended ==
    \A e \in Ends : ends[e].drain = "done" => ends'[e].drain = "done"

\* C34: once the connection of an H3 session is closed, by this end or by
\* the peer, the drain task ends, whatever capsules it has read, and it
\* does not run again.
C34_DrainTerminates ==
    /\ \A e \in Ends :
          (EndH3(e) /\ ends[e].drain = "running" /\ ends[e].closed # NotClosed)
             ~> (ends[e].drain = "done")
    /\ [][C34_Ended]_vars

\* The peer closed the connection after the drain task had read a capsule
\* it skips, with another one unread; the task has ended on the failed
\* read.
C34_Witness ==
    /\ EndH3("client")
    /\ ends["client"].closed.tag = "ApplicationClosed"
    /\ ends["client"].drain = "done"
    /\ ends["client"].read = 1
    /\ Len(ends["client"].capsules) = 2
    /\ ends["client"].drainRet = Some([code |-> U32(0, 1), reason |-> "capsule error"])

\* The calls that hold stream i as their result.
Holders(i) ==
    { c \in Callers : uniCalls.ret[c] = RetOk(i) }

\* No stream was returned twice, each returned stream is the result of one
\* call only, and accept_uni and accept_bi return different streams.
C36_Once ==
    /\ \A k1, k2 \in DOMAIN surfaced : surfaced[k1] = surfaced[k2] => k1 = k2
    /\ \A i \in DOMAIN incoming :
          /\ Cardinality(Holders(i)) <= 1
          /\ Holders(i) # {} => incoming[i].dir = "uni" /\ IsSurfaced(i)
          /\ biRet = RetOk(i) => incoming[i].dir = "bi" /\ Holders(i) = {}

\* A stream is returned in the step that takes it out of the pending
\* collection, and a returned stream stays returned.
C36_Step ==
    \A i \in DOMAIN incoming :
       /\ NewlySurfaced(i) => Unread(incoming[i]) /\ surfaced' = Append(surfaced, i)
       /\ IsSurfaced(i) => incoming'[i] = incoming[i]

\* C36: each incoming stream is surfaced at most once: whatever calls of
\* accept_uni and accept_bi run side by side on a session and its clones,
\* no stream is returned to two callers.
C36_SurfacedOnce ==
    /\ [] C36_Once
    /\ [][C36_Step]_vars

\* Two accept_uni calls that ran side by side have each returned a stream.
C36_Witness ==
    /\ uniCalls.ret[1].tag = "Ok"
    /\ uniCalls.ret[2].tag = "Ok"
    /\ Len(surfaced) = 2

\* C37: with two accept_uni calls waiting on one H3 session and two
\* unidirectional streams with our header arrived, both calls eventually
\* return a stream (unless the connection closes or a stream is reset
\* first).
C37_BothReturn ==
    (/\ \A c \in Callers : uniCalls.ret[c] = Pending
     /\ \A i \in 1..2 : HeaderArrivedUni(i) /\ ~IsReset(i))
       ~> (\/ \A c \in Callers : uniCalls.ret[c].tag = "Ok"
           \/ connClosed
           \/ \E i \in 1..2 : IsReset(i))

(***************************************************************************)
(* Server::accept.                                                         *)
(*                                                                         *)
(* srv.conns are the connections clients have started towards the         *)
(* endpoint, in order; each is [net, loc]: net is how far its handshake    *)
(* has got ("handshaking", which it may stay for ever, "ok" or "failed"),  *)
(* loc where the server has it: in the endpoint's queue ("queued"), as a   *)
(* handshake future in self.accept ("accepting"), returned as a Request    *)
(* ("returned") or thrown away with its error ("skipped").  srv.ret is     *)
(* the accept call: Idle, Running, Some(conn) or None.                     *)
(***************************************************************************)
\* Connections clients start in one run.
MaxConns == 3

ServerRet(tag, i) == [tag |-> tag, conn |-> i]

\* A client starts a connection: the endpoint queues it.
ClientConnect ==
    /\ ~srv.closed
    /\ Len(srv.conns) < MaxConns
    /\ srv' = [srv EXCEPT !.conns = Append(@, [net |-> "handshaking", loc |-> "queued"])]
    /\ UNCHANGED << sess, connClosed, acceptVars, openVars, dgramVars, connVars, xfer >>

\* The handshake of a connection the server has taken from the endpoint
\* completes or fails; one that does neither has stalled.
Handshake ==
    /\ \E i \in DOMAIN srv.conns, net \in {"ok", "failed"} :
          /\ srv.conns[i].loc = "accepting"
          /\ srv.conns[i].net = "handshaking"
          /\ srv' = [srv EXCEPT !.conns[i].net = net]
    /\ UNCHANGED << sess, connClosed, acceptVars, openVars, dgramVars, connVars, xfer >>

\* The endpoint is closed.
EndpointClose ==
    /\ ~srv.closed
    /\ srv' = [srv EXCEPT !.closed = TRUE]
    /\ UNCHANGED << sess, connClosed, acceptVars, openVars, dgramVars, connVars, xfer >>

\* The application calls Server::accept, for the first time or again.
ServerCall ==
    /\ srv.ret.tag \in {"Idle", "Some"}
    /\ srv' = [srv EXCEPT !.ret = ServerRet("Running", 0)]
    /\ UNCHANGED << sess, connClosed, acceptVars, openVars, dgramVars, connVars, xfer >>

\* A turn of the loop in which endpoint.accept() is the branch that
\* completes: with a connection, whose handshake future is pushed to
\* self.accept, or with None on a closed endpoint, which ends the call.
AcceptIncoming ==
    /\ srv.ret.tag = "Running"
    /\ \/ /\ srv.closed
          /\ srv' = [srv EXCEPT !.ret = ServerRet("None", 0)]
       \/ /\ ~srv.closed
          /\ \E i \in DOMAIN srv.conns :
                /\ srv.conns[i].loc = "queued"
                /\ \A k \in 1..(i - 1) : srv.conns[k].loc # "queued"
                /\ srv' = [srv EXCEPT !.conns[i].loc = "accepting"]
    /\ UNCHANGED << sess, connClosed, acceptVars, openVars, dgramVars, connVars, xfer >>

\* A loop that ends with the first handshake that failed.
AcceptReady_fatal ==
    /\ srv.ret.tag = "Running"
    /\ \E i \in DOMAIN srv.conns :
          /\ srv.conns[i].loc = "accepting"
          /\ srv.conns[i].net # "handshaking"
          /\ srv' = IF srv.conns[i].net = "ok"
                    THEN [srv EXCEPT !.conns[i].loc = "returned",
                                     !.ret = ServerRet("Some", i)]
                    ELSE [srv EXCEPT !.conns[i].loc = "skipped",
                                     !.ret = ServerRet("None", 0)]
    /\ UNCHANGED << sess, connClosed, acceptVars, openVars, dgramVars, connVars, xfer >>
\* A turn of the loop in which self.accept.next() is the branch that
\* completes, with the result of any handshake future that is ready: Ok is
\* returned, Err is thrown away and the loop goes on.
AcceptReady ==
    /\ srv.ret.tag = "Running"
    /\ \E i \in DOMAIN srv.conns :
          /\ srv.conns[i].loc = "accepting"
          /\ srv.conns[i].net # "handshaking"
          /\ srv' = IF srv.conns[i].net = "ok"
                    THEN [srv EXCEPT !.conns[i].loc = "returned",
                                     !.ret = ServerRet("Some", i)]
                    ELSE [srv EXCEPT !.conns[i].loc = "skipped"]
    /\ UNCHANGED << sess, connClosed, acceptVars, openVars, dgramVars, connVars, xfer >>

InitServer ==
    /\ sess = Session_raw
    /\ connClosed = FALSE
    /\ InitAcceptVars
    /\ IdleOpenVars
    /\ IdleDgramVars
    /\ IdleConnVars
    /\ IdleCodeVars

NextServer ==
    \/ ClientConnect
    \/ Handshake
    \/ EndpointClose
    \/ ServerCall
    \/ AcceptIncoming
    \/ AcceptReady

SpecServer == InitServer /\ [][NextServer]_vars

\* The task that awaits Server::accept is polled while a branch of its
\* select! can complete, and select! does not pass over a ready branch for
\* ever.
LiveServer == SpecServer /\ WF_vars(AcceptIncoming) /\ WF_vars(AcceptReady)

\* A connection whose handshake succeeded and that accept has not returned.
Succeeded(i) ==
    /\ i \in DOMAIN srv.conns
    /\ srv.conns[i].net = "ok"
    /\ srv.conns[i].loc = "accepting"

\* Only a connection whose handshake succeeded is returned, a connection
\* whose handshake failed or has not ended is never returned, and a call
\* ends with None on a closed endpoint only.
C38_OnlySuccess ==
    /\ srv.ret.tag = "Some" =>
          srv.conns[srv.ret.conn].net = "ok" /\ srv.conns[srv.ret.conn].loc = "returned"
    /\ \A i \in DOMAIN srv.conns :
          /\ srv.conns[i].loc = "returned" => srv.conns[i].net = "ok"
          /\ srv.conns[i].loc = "skipped" => srv.conns[i].net = "failed"
    /\ srv.ret.tag = "None" => srv.closed

\* Throwing a failed handshake away leaves the call running and the other
\* connections as they are.
C38_Skip ==
    \A i \in DOMAIN srv.conns :
       srv.conns[i].loc # "skipped" /\ srv'.conns[i].loc = "skipped" =>
          /\ srv'.ret = ServerRet("Running", 0)
          /\ \A k \in DOMAIN srv.conns \ {i} : srv'.conns[k] = srv.conns[k]

\* A running call returns a Request when some handshake has succeeded,
\* whatever the other connections do (unless the endpoint is closed).
C38_Returns ==
    (srv.ret.tag = "Running" /\ \E i \in 1..MaxConns : Succeeded(i))
       ~> (srv.ret.tag = "Some" \/ srv.closed)

\* C38: in Server::accept a connection whose handshake fails or stalls does
\* not keep the call from returning the Request of a connection whose
\* handshake succeeds: a failed handshake is skipped and the loop goes on,
\* a stalled one waits beside the others, and only a successful one is
\* returned.
C38_AcceptSkipsFailures ==
    /\ [] C38_OnlySuccess
    /\ [][C38_Skip]_vars
    /\ C38_Returns

\* The call returned the third connection after the handshake of the first
\* had failed and was skipped, while that of the second is still going on.
C38_Witness ==
    /\ Len(srv.conns) = 3
    /\ srv.conns[1] = [net |-> "failed", loc |-> "skipped"]
    /\ srv.conns[2] = [net |-> "handshaking", loc |-> "accepting"]
    /\ srv.ret = ServerRet("Some", 3)

====
